---------------------------- MODULE Spec2Model ----------------------------
(***************************************************************************)
(* A model of the two-pass ARM64 assembler of src/asm.py                   *)
(* (class ARM64Assembler): operand parsing, the instruction encoders, the  *)
(* two passes of assemble, relocation resolution and the Mach-O emitter.   *)
(*                                                                         *)
(* Text is modelled as a sequence of one-character strings, so that the    *)
(* comment stripping, label splitting and tokenizing of the source are     *)
(* computed character by character as Python computes them.                *)
(*                                                                         *)
(* Python integers are unbounded.  An integer n is modelled as the pair    *)
(* <<hi, lo>> with n = hi * 65536 + lo and 0 <= lo < 65536 (hi is the      *)
(* floor of n / 65536 and may be negative), so 32-bit instruction words,   *)
(* addresses around 2^32 and values that overflow 32 bits are all exact.   *)
(***************************************************************************)
EXTENDS Integers, Sequences, FiniteSets, TLC

VARIABLES
    labels,        \* self.labels: function from label name to address
    relocations,   \* self.relocations: sequence of <<offset, label, type>>
    address,       \* self.address
    machine_code,  \* self.machine_code: sequence of words
    pc,            \* the step the running call takes next, "idle" when none runs
    call,          \* the call being executed / last executed, with its arguments
    lines,         \* local `lines` of assemble
    lineno,        \* 1-based number of the line the running pass works on
    local,         \* the values the running call has read into its locals
    result,        \* outcome of the last finished call
    stderr,        \* diagnostic stream: sequence of messages
    files,         \* content of the output file (or Absent)
    todo,          \* the calls the client still makes, drawn at the start
    returned,      \* the sequence assemble last returned, as it was at the return
    suspended      \* the frame of the other thread, when two share the instance

vars == <<labels, relocations, address, machine_code, pc, call, lines, lineno,
          local, result, stderr, files, todo, returned, suspended>>

(***************************************************************************)
(* Unbounded integers as <<hi, lo>> pairs.                                 *)
(***************************************************************************)
Limb == 65536

RECURSIVE Pow2(_)
Pow2(k) == IF k = 0 THEN 1 ELSE 2 * Pow2(k - 1)

Norm(hi, lo) == <<hi + (lo \div Limb), lo % Limb>>

I(n) == Norm(0, n)

IAdd(a, b) == Norm(a[1] + b[1], a[2] + b[2])

ISub(a, b) == Norm(a[1] - b[1], a[2] - b[2])

INeg(a) == ISub(I(0), a)

ILt(a, b) == a[1] < b[1] \/ (a[1] = b[1] /\ a[2] < b[2])

IGe(a, b) == ~ILt(a, b)

\* Python a << k
RECURSIVE IShl(_, _)
IShl(a, k) ==
    IF k = 0 THEN a
    ELSE IF k >= 16 THEN IShl(<<a[1] * Limb + a[2], 0>>, k - 16)
    ELSE Norm(a[1] * Pow2(k), a[2] * Pow2(k))

\* Python a >> k (arithmetic, rounds toward minus infinity)
RECURSIVE IShr(_, _)
IShr(a, k) ==
    IF k = 0 THEN a
    ELSE IF k >= 16 THEN IShr(<<a[1] \div Limb, a[1] % Limb>>, k - 16)
    ELSE <<a[1] \div Pow2(k),
           (a[1] % Pow2(k)) * Pow2(16 - k) + (a[2] \div Pow2(k))>>

\* Python a // d for a small positive d
IFloorDiv(a, d) ==
    LET r == a[1] % d
        q == a[1] \div d
        n == r * Limb + a[2]
    IN  Norm(q, n \div d)

\* two's-complement bitwise operations on (possibly negative) integers
RECURSIVE BitAnd(_, _)
BitAnd(x, y) ==
    IF x = 0 \/ y = 0 THEN 0
    ELSE IF x = -1 THEN y
    ELSE IF y = -1 THEN x
    ELSE (x % 2) * (y % 2) + 2 * BitAnd(x \div 2, y \div 2)

RECURSIVE BitOr(_, _)
BitOr(x, y) ==
    IF x = 0 THEN y
    ELSE IF y = 0 THEN x
    ELSE IF x = -1 \/ y = -1 THEN -1
    ELSE ((x % 2) + (y % 2) - (x % 2) * (y % 2)) + 2 * BitOr(x \div 2, y \div 2)

\* Python a & b and a | b
IAnd(a, b) == <<BitAnd(a[1], b[1]), BitAnd(a[2], b[2])>>

IOr(a, b) == <<BitOr(a[1], b[1]), BitOr(a[2], b[2])>>

RECURSIVE IOrAll(_)
IOrAll(s) == IF s = <<>> THEN I(0) ELSE IOr(Head(s), IOrAll(Tail(s)))

\* n << k for a small integer n
Sh(n, k) == IShl(I(n), k)

\* the integer of a 32-bit pattern given as two 16-bit halves (0xHHHHLLLL)
Hex32(h, l) == <<h, l>>

IsWord32(w) == w[1] >= 0 /\ w[1] < Limb

\* bits [hi_bit : lo_bit] of w, as an integer pair
Field(w, hi_bit, lo_bit) ==
    IAnd(IShr(w, lo_bit), ISub(Sh(1, hi_bit - lo_bit + 1), I(1)))

(***************************************************************************)
(* Text: sequences of one-character strings, with the str methods the      *)
(* assembler uses.                                                         *)
(***************************************************************************)
\* the characters str.strip() and str.split() take for white space, among
\* the characters up to U+00FF that a text of the model is made of
WhitespaceText == <<" ", "\t", "\n", "", "\f", "\r", "", "", "", "", "", " ">>

Whitespace == {WhitespaceText[k] : k \in 1..Len(WhitespaceText)}

\* the white space int() accepts around a number: not U+001C..U+001F
IntWhitespaceText == <<" ", "\t", "\n", "", "\f", "\r", "", " ">>

IntWhitespace == {IntWhitespaceText[k] : k \in 1..Len(IntWhitespaceText)}

Digits == <<"0", "1", "2", "3", "4", "5", "6", "7", "8", "9">>

HexDigits == Digits \o <<"a", "b", "c", "d", "e", "f">>

\* the cased characters up to U+00FF: A-Z and the Latin-1 capitals, with
\* their lower-case forms at the same positions
UpperCase == <<"A", "B", "C", "D", "E", "F", "G", "H", "I", "J", "K", "L", "M", "N", "O", "P", "Q", "R", "S", "T", "U", "V", "W", "X", "Y", "Z", "À", "Á", "Â", "Ã", "Ä", "Å", "Æ", "Ç", "È", "É", "Ê", "Ë", "Ì", "Í", "Î", "Ï", "Ð", "Ñ", "Ò", "Ó", "Ô", "Õ", "Ö", "Ø", "Ù", "Ú", "Û", "Ü", "Ý", "Þ">>

LowerCase == <<"a", "b", "c", "d", "e", "f", "g", "h", "i", "j", "k", "l", "m", "n", "o", "p", "q", "r", "s", "t", "u", "v", "w", "x", "y", "z", "à", "á", "â", "ã", "ä", "å", "æ", "ç", "è", "é", "ê", "ë", "ì", "í", "î", "ï", "ð", "ñ", "ò", "ó", "ô", "õ", "ö", "ø", "ù", "ú", "û", "ü", "ý", "þ">>

\* position of c in the sequence t, 0 when absent
IndexIn(t, c) ==
    IF \E k \in 1..Len(t) : t[k] = c
    THEN CHOOSE k \in 1..Len(t) : t[k] = c /\ \A j \in 1..(k - 1) : t[j] # c
    ELSE 0

LowerChar(c) == IF IndexIn(UpperCase, c) # 0 THEN LowerCase[IndexIn(UpperCase, c)] ELSE c

\* str.lower()
Lower(s) == [k \in 1..Len(s) |-> LowerChar(s[k])]

\* s[i:] and s[:i] with 0-based Python indices
From(s, i) == SubSeq(s, i + 1, Len(s))

UpTo(s, i) == SubSeq(s, 1, i)

\* str.startswith / str.endswith
StartsWith(s, p) == Len(p) <= Len(s) /\ SubSeq(s, 1, Len(p)) = p

EndsWith(s, p) == Len(p) <= Len(s) /\ SubSeq(s, Len(s) - Len(p) + 1, Len(s)) = p

\* str.index(p): 0-based index of the first occurrence of p, -1 when absent
Find(s, p) ==
    LET hits == {k \in 0..(Len(s) - Len(p)) : SubSeq(s, k + 1, k + Len(p)) = p}
    IN  IF hits = {} THEN -1 ELSE CHOOSE k \in hits : \A j \in hits : k <= j

\* p in s
Contains(s, p) == Find(s, p) # -1

\* str.lstrip(chars) / str.rstrip(chars) / str.strip(chars)
RECURSIVE LStripSet(_, _)
LStripSet(s, cs) ==
    IF s # <<>> /\ Head(s) \in cs THEN LStripSet(Tail(s), cs) ELSE s

RECURSIVE RStripSet(_, _)
RStripSet(s, cs) ==
    IF s # <<>> /\ s[Len(s)] \in cs THEN RStripSet(SubSeq(s, 1, Len(s) - 1), cs) ELSE s

StripSet(s, cs) == RStripSet(LStripSet(s, cs), cs)

\* str.strip()
Strip(s) == StripSet(s, Whitespace)

\* str.split(c) for a one-character separator: always at least one piece
RECURSIVE SplitOn(_, _)
SplitOn(s, c) ==
    LET k == Find(s, <<c>>)
    IN  IF k = -1 THEN <<s>> ELSE <<UpTo(s, k)>> \o SplitOn(From(s, k + 1), c)

\* str.split(c, 1): the text before the first c and the text after it
SplitOnce(s, c) ==
    LET k == Find(s, <<c>>)
    IN  IF k = -1 THEN <<s>> ELSE <<UpTo(s, k), From(s, k + 1)>>

\* str.split(): pieces separated by runs of whitespace, none of them empty
RECURSIVE SplitWS(_)
SplitWS(s) ==
    LET t == LStripSet(s, Whitespace)
        ws == {k \in 1..Len(t) : t[k] \in Whitespace}
        e == IF ws = {} THEN Len(t) + 1 ELSE CHOOSE k \in ws : \A j \in ws : k <= j
    IN  IF t = <<>> THEN <<>>
        ELSE <<SubSeq(t, 1, e - 1)>> \o SplitWS(SubSeq(t, e, Len(t)))

\* str.replace(c, d) for one-character c and d
Replace(s, c, d) == [k \in 1..Len(s) |-> IF s[k] = c THEN d ELSE s[k]]

\* sep.join(parts)
RECURSIVE Join(_, _)
Join(parts, sep) ==
    IF parts = <<>> THEN <<>>
    ELSE IF Len(parts) = 1 THEN parts[1]
    ELSE parts[1] \o sep \o Join(Tail(parts), sep)

\* the elements of a sequence that satisfy Keep, in order
RECURSIVE NonEmpty(_)
NonEmpty(parts) ==
    IF parts = <<>> THEN <<>>
    ELSE IF Head(parts) # <<>> THEN <<Head(parts)>> \o NonEmpty(Tail(parts))
    ELSE NonEmpty(Tail(parts))

\* outcomes of a call: a returned value or a raised exception
Ok(v) == [ok |-> TRUE, v |-> v]

Raise(e) == [ok |-> FALSE, exc |-> e]

\* value of a string of digits in the given radix (set of digit positions),
\* most significant first; an integer pair
RECURSIVE DigitsValue(_, _, _)
DigitsValue(s, radix, acc) ==
    IF s = <<>> THEN acc
    ELSE DigitsValue(Tail(s), radix,
                     IAdd(<<acc[1] * radix + ((acc[2] * radix) \div Limb),
                            (acc[2] * radix) % Limb>>,
                          I(IndexIn(HexDigits, LowerChar(Head(s))) - 1)))

\* is c a digit of the radix
IsDigit(c, radix) == IndexIn(HexDigits, LowerChar(c)) \in 1..radix

\* the digit text int() accepts: digits of the radix, with single
\* underscores between two digits
AllDigits(d, radix) ==
    d # <<>> /\ \A k \in 1..Len(d) :
        \/ IsDigit(d[k], radix)
        \/ /\ d[k] = "_"
           /\ k > 1 /\ k < Len(d)
           /\ IsDigit(d[k - 1], radix) /\ IsDigit(d[k + 1], radix)

\* d without its underscores
RECURSIVE WithoutUnderscores(_)
WithoutUnderscores(d) ==
    IF d = <<>> THEN <<>>
    ELSE IF Head(d) = "_" THEN WithoutUnderscores(Tail(d))
    ELSE <<Head(d)>> \o WithoutUnderscores(Tail(d))

\* the value of the digits d, negated when neg; ValueError on a text that
\* is not a digit text
IntDigits(d, radix, neg) ==
    IF ~AllDigits(d, radix) THEN Raise("ValueError")
    ELSE IF neg THEN Ok(INeg(DigitsValue(WithoutUnderscores(d), radix, I(0))))
    ELSE Ok(DigitsValue(WithoutUnderscores(d), radix, I(0)))

\* does the unsigned text u start with the prefix of the radix ("0x" or
\* "0X" for 16, "0b" or "0B" for 2)
HasPrefix(u, radix) ==
    \/ radix = 16 /\ StartsWith(Lower(u), <<"0", "x">>)
    \/ radix = 2 /\ StartsWith(Lower(u), <<"0", "b">>)

\* the unsigned text u without the radix prefix and without the single
\* underscore that may follow the prefix
DropPrefix(u, radix) ==
    IF ~HasPrefix(u, radix) THEN u
    ELSE IF Len(u) > 2 /\ u[3] = "_" THEN From(u, 3)
    ELSE From(u, 2)

IntSigned(t, radix) ==
    IF t # <<>> /\ Head(t) \in {"-", "+"}
    THEN IntDigits(DropPrefix(Tail(t), radix), radix, Head(t) = "-")
    ELSE IntDigits(DropPrefix(t, radix), radix, FALSE)

\* int(text, radix): optional surrounding white space, optional sign,
\* optional radix prefix, then the digit text
IntOf(text, radix) == IntSigned(StripSet(text, IntWhitespace), radix)

\* str(n) for a small natural number, and the text of a string constant
RECURSIVE Dec(_)
Dec(n) == IF n < 10 THEN <<Digits[n + 1]>> ELSE Dec(n \div 10) \o <<Digits[(n % 10) + 1]>>

(***************************************************************************)
(* Operand parsing (parse_register, parse_imm, sign_extend).               *)
(***************************************************************************)
\* the number n in 0..max whose decimal text is t, -1 when there is none
Canonical(t, max) ==
    IF \E n \in 0..max : Dec(n) = t THEN CHOOSE n \in 0..max : Dec(n) = t ELSE -1

\* self.registers (_init_registers): index of a register name, -1 when the
\* name is not a key of the table
RegisterIndex(name) ==
    IF name \in {<<"x", "z", "r">>, <<"w", "z", "r">>, <<"s", "p">>} THEN 31
    ELSE IF name = <<"l", "r">> THEN 30
    ELSE IF name = <<"f", "p">> THEN 29
    ELSE IF name = <<>> THEN -1
    ELSE IF Head(name) \in {"x", "w"} THEN Canonical(Tail(name), 30)
    ELSE IF Head(name) \in {"v", "s", "d", "q"} THEN Canonical(Tail(name), 31)
    ELSE -1

\* the result of parse_register for the cleaned name r with table index i
RegisterResult(r, i) ==
    IF i = -1 THEN Raise("ValueError")
    ELSE Ok(<<i, IF StartsWith(r, <<"x">>) \/ r \in {<<"s", "p">>, <<"l", "r">>, <<"f", "p">>, <<"x", "z", "r">>}
                 THEN 1 ELSE 0>>)

RegisterLookup(r) == RegisterResult(r, RegisterIndex(r))

\* parse_register(reg): <<reg_num, is_64bit>> with is_64bit as 0 or 1
parse_register(reg) == RegisterLookup(Strip(Lower(reg)))

\* the radix parse_imm reads the cleaned text in
RadixOf(t) ==
    IF StartsWith(t, <<"0", "x">>) THEN 16 ELSE IF StartsWith(t, <<"0", "b">>) THEN 2 ELSE 10

ParseCleaned(t) == IntOf(t, RadixOf(t))

\* parse_imm(imm)
parse_imm(imm) == ParseCleaned(LStripSet(Strip(imm), {"#"}))

\* sign_extend(value, bits)
sign_extend(value, bits) ==
    LET sign_bit == Sh(1, bits - 1)
    IN  ISub(IAnd(value, ISub(sign_bit, I(1))), IAnd(value, sign_bit))

\* ops[i] (0-based), raising IndexError when the list is too short
OpAt(ops, i) == IF i < Len(ops) THEN Ok(ops[i + 1]) ELSE Raise("IndexError")

\* parse_register(ops[i]) and parse_imm(ops[i])
RegAt(ops, i) == IF i < Len(ops) THEN parse_register(ops[i + 1]) ELSE Raise("IndexError")

ImmAt(ops, i) == IF i < Len(ops) THEN parse_imm(ops[i + 1]) ELSE Raise("IndexError")

\* the first raised outcome of a sequence of outcomes evaluated in order
RECURSIVE FirstRaise(_)
FirstRaise(rs) ==
    IF rs = <<>> THEN Ok(0)
    ELSE IF ~Head(rs).ok THEN Head(rs)
    ELSE FirstRaise(Tail(rs))

\* bool as 0 / 1
B(b) == IF b THEN 1 ELSE 0

\* the value of an outcome, d when it raised
ValOr(r, d) == IF r.ok THEN r.v ELSE d

\* register number and width bit of a parsed register
Num(r) == ValOr(r, <<0, 0>>)[1]

Wide(r) == ValOr(r, <<0, 0>>)[2]

\* value of a parsed immediate
Imm(r) == ValOr(r, <<0, 0>>)

(***************************************************************************)
(* Instruction encoders.  Each returns Ok(word) or Raise(exception).  An   *)
(* encoder parses its operands and hands the outcomes, in the order Python *)
(* evaluates them, to the operator that packs the word; the exception      *)
(* raised is the first one met.                                            *)
(***************************************************************************)
\* opc_map.get(mnem, default) / opc_map[mnem] over (key, value) pairs
MapGet(pairs, key, default) ==
    IF \E k \in 1..Len(pairs) : pairs[k][1] = key
    THEN pairs[CHOOSE k \in 1..Len(pairs) : pairs[k][1] = key][2]
    ELSE default

\* raise exc when cond holds
RaiseIf(cond, exc) == IF cond THEN Raise(exc) ELSE Ok(0)

\* the word of the fields, or the first exception of the parsing steps
WordOrRaise(steps, fields) ==
    IF ~FirstRaise(steps).ok THEN FirstRaise(steps) ELSE Ok(IOrAll(fields))

\* the optional ", LSL #amount" operand pair starting at ops[i]
LslAmount(ops, i) ==
    IF Len(ops) > i /\ Contains(Lower(ops[i + 1]), <<"l", "s", "l">>) THEN ImmAt(ops, i + 1)
    ELSE Ok(I(0))

\* AddSubImmWord placing the immediate two bits too high
AddSubImmWordShifted(mnem, rd, rn, imm, amount) ==
    WordOrRaise(
        <<rd, rn, imm,
          RaiseIf(ILt(Imm(imm), I(0)) \/ IGe(Imm(imm), I(4096)), "ValueError"), amount>>,
        <<Sh(Wide(rd), 31), Sh(B(Contains(mnem, <<"s", "u", "b">>)), 30),
          Sh(B(EndsWith(mnem, <<"s">>)), 29), Sh(34, 23),
          IShl(IFloorDiv(Imm(amount), 12), 22), IShl(Imm(imm), 12), Sh(Num(rn), 5),
          I(Num(rd))>>)

\* the word of ADD/SUB (immediate) from the parsed operands
AddSubImmWord(mnem, rd, rn, imm, amount) ==
    WordOrRaise(
        <<rd, rn, imm,
          RaiseIf(ILt(Imm(imm), I(0)) \/ IGe(Imm(imm), I(4096)), "ValueError"), amount>>,
        <<Sh(Wide(rd), 31), Sh(B(Contains(mnem, <<"s", "u", "b">>)), 30),
          Sh(B(EndsWith(mnem, <<"s">>)), 29), Sh(34, 23),
          IShl(IFloorDiv(Imm(amount), 12), 22), IShl(Imm(imm), 10), Sh(Num(rn), 5),
          I(Num(rd))>>)

\* _encode_add_sub_imm(mnem, ops)
encode_add_sub_imm(mnem, ops) ==
    AddSubImmWord(mnem, RegAt(ops, 0), RegAt(ops, 1), ImmAt(ops, 2), LslAmount(ops, 3))

LogicalImmWord(opc, rd, rn, imm) ==
    WordOrRaise(
        <<rd, rn, imm>>,
        <<Sh(Wide(rd), 31), Sh(opc, 29), Sh(36, 23), Sh(Wide(rd), 22), Sh(0, 16),
          IShl(IAnd(Imm(imm), I(63)), 10), Sh(Num(rn), 5), I(Num(rd))>>)

\* _encode_logical_imm(mnem, ops)
encode_logical_imm(mnem, ops) ==
    LogicalImmWord(
        MapGet(<<<<<<"a", "n", "d">>, 0>>, <<<<"o", "r", "r">>, 1>>, <<<<"e", "o", "r">>, 2>>, <<<<"a", "n", "d", "s">>, 3>>>>, mnem, 1),
        RegAt(ops, 0), RegAt(ops, 1), ImmAt(ops, 2))

MovWideWord(opc, rd, imm, shift) ==
    WordOrRaise(
        <<RaiseIf(opc = -1, "KeyError"), rd, imm, shift,
          RaiseIf(ILt(Imm(imm), I(0)) \/ IGe(Imm(imm), I(65536)), "ValueError")>>,
        <<Sh(Wide(rd), 31), Sh(opc, 29), Sh(37, 23), IShl(IFloorDiv(Imm(shift), 16), 21),
          IShl(Imm(imm), 5), I(Num(rd))>>)

\* _encode_movz_movn_movk(mnem, ops)
encode_movz_movn_movk(mnem, ops) ==
    MovWideWord(MapGet(<<<<<<"m", "o", "v", "z">>, 2>>, <<<<"m", "o", "v", "n">>, 0>>, <<<<"m", "o", "v", "k">>, 3>>>>, mnem, -1),
                RegAt(ops, 0), ImmAt(ops, 1), LslAmount(ops, 2))

AddSubRegWord(mnem, rd, rn, rm) ==
    WordOrRaise(
        <<rd, rn, rm>>,
        <<Sh(Wide(rd), 31), Sh(B(Contains(mnem, <<"s", "u", "b">>)), 30),
          Sh(B(EndsWith(mnem, <<"s">>)), 29), Sh(11, 24), Sh(0, 22), Sh(Num(rm), 16),
          Sh(0, 10), Sh(Num(rn), 5), I(Num(rd))>>)

\* _encode_add_sub_reg(mnem, ops)
encode_add_sub_reg(mnem, ops) ==
    AddSubRegWord(mnem, RegAt(ops, 0), RegAt(ops, 1), RegAt(ops, 2))

LogicalRegWord(opc, N, rd, rn, rm) ==
    WordOrRaise(
        <<rd, rn, rm>>,
        <<Sh(Wide(rd), 31), Sh(opc, 29), Sh(10, 24), Sh(N, 21), Sh(Num(rm), 16),
          Sh(Num(rn), 5), I(Num(rd))>>)

\* _encode_logical_reg(mnem, ops)
encode_logical_reg(mnem, ops) ==
    LogicalRegWord(
        MapGet(<<<<<<"a", "n", "d">>, 0>>, <<<<"b", "i", "c">>, 0>>, <<<<"o", "r", "r">>, 1>>, <<<<"o", "r", "n">>, 1>>,
                 <<<<"e", "o", "r">>, 2>>, <<<<"e", "o", "n">>, 2>>, <<<<"a", "n", "d", "s">>, 3>>, <<<<"b", "i", "c", "s">>, 3>>>>,
               mnem, 1),
        B(mnem \in {<<"b", "i", "c">>, <<"o", "r", "n">>, <<"e", "o", "n">>, <<"b", "i", "c", "s">>}),
        RegAt(ops, 0), RegAt(ops, 1), RegAt(ops, 2))

MulDivWord(mnem, rd, rn, rm, ra) ==
    IF mnem \in {<<"s", "d", "i", "v">>, <<"u", "d", "i", "v">>}
    THEN WordOrRaise(
             <<rd, rn, rm>>,
             <<Sh(Wide(rd), 31), Sh(214, 21), Sh(Num(rm), 16), Sh(B(mnem = <<"s", "d", "i", "v">>), 10),
               Sh(Num(rn), 5), I(Num(rd))>>)
    ELSE WordOrRaise(
             <<rd, rn, rm, ra>>,
             <<Sh(Wide(rd), 31), Sh(27, 24), Sh(Num(rm), 16), Sh(B(mnem = <<"m", "s", "u", "b">>), 15),
               Sh(Num(ra), 10), Sh(Num(rn), 5), I(Num(rd))>>)

\* _encode_mul_div(mnem, ops); a mnemonic outside the three groups reads the
\* unbound local `ra` and raises UnboundLocalError
encode_mul_div(mnem, ops) ==
    MulDivWord(mnem, RegAt(ops, 0), RegAt(ops, 1), RegAt(ops, 2),
               IF mnem = <<"m", "u", "l">> THEN Ok(<<31, 1>>)
               ELSE IF mnem \in {<<"m", "a", "d", "d">>, <<"m", "s", "u", "b">>} THEN RegAt(ops, 3)
               ELSE Raise("UnboundLocalError"))

ShiftWord(shift, rd, rn, op2, is_imm, operand) ==
    IF is_imm
    THEN WordOrRaise(
             <<RaiseIf(shift = -1, "KeyError"), rd, rn, op2, operand>>,
             <<Sh(Wide(rd), 31), Sh(1238, 21), IShl(Imm(operand), 16),
               IShl(Imm(operand), 10), Sh(Num(rn), 5), I(Num(rd))>>)
    ELSE WordOrRaise(
             <<RaiseIf(shift = -1, "KeyError"), rd, rn, op2, operand>>,
             <<Sh(Wide(rd), 31), Sh(214, 21), Sh(Num(operand), 16), Sh(2, 12),
               Sh(shift, 10), Sh(Num(rn), 5), I(Num(rd))>>)

\* does ops[i] exist and start with '#'
HashAt(ops, i) == i < Len(ops) /\ StartsWith(Strip(ops[i + 1]), <<"#">>)

\* _encode_shift(mnem, ops)
encode_shift(mnem, ops) ==
    ShiftWord(MapGet(<<<<<<"l", "s", "l">>, 0>>, <<<<"l", "s", "r">>, 1>>, <<<<"a", "s", "r">>, 2>>, <<<<"r", "o", "r">>, 3>>>>,
                     mnem, -1),
              RegAt(ops, 0), RegAt(ops, 1), OpAt(ops, 2), HashAt(ops, 2),
              IF HashAt(ops, 2) THEN ImmAt(ops, 2) ELSE RegAt(ops, 2))

\* has the key `name` an entry in the label table
HasLabel(lbls, name) == name \in DOMAIN lbls

\* outcome of an encoder that appends to self.relocations
OkRel(v, rel) == [ok |-> TRUE, v |-> v, rel |-> rel]

\* the relocation entries an encoder outcome appends
RelOf(r) == IF r.ok /\ "rel" \in DOMAIN r THEN r.rel ELSE <<>>

\* the shape of a memory operand: "imm" for [Xn, #imm], "reg" for [Xn, Xm],
\* "base" otherwise
MemForm(mem) ==
    IF Contains(mem, <<"[">>) /\ Contains(mem, <<"#">>) THEN "imm"
    ELSE IF Contains(mem, <<"[">>) /\ Contains(mem, <<",">>) THEN "reg"
    ELSE "base"

\* mem.strip('[]').split(',')
MemParts(mem) == SplitOn(StripSet(mem, {"[", "]"}), ",")

\* the base register of a memory operand of the given form
MemBase(mem, form) ==
    IF form = "base" THEN parse_register(StripSet(mem, {"[", "]"}))
    ELSE parse_register(MemParts(mem)[1])

\* the offset part of a memory operand of the given form
MemOffset(mem, form) ==
    IF form = "imm" THEN ImmAt(MemParts(mem), 1)
    ELSE IF form = "reg" THEN RegAt(MemParts(mem), 1)
    ELSE Ok(<<0, 0>>)

LdrStrWord(is_load, rt, op1, form, rn, second) ==
    IF form = "imm"
    THEN WordOrRaise(
             <<rt, op1, rn, second>>,
             <<Sh(2 + Wide(rt), 30), Sh(7, 27), Sh(1, 24), Sh(is_load, 22),
               IShl(IF IGe(Imm(second), I(0)) THEN IShr(Imm(second), 2 + Wide(rt))
                    ELSE I(0), 10),
               Sh(Num(rn), 5), I(Num(rt))>>)
    ELSE IF form = "reg"
    THEN WordOrRaise(
             <<rt, op1, rn, second>>,
             <<Sh(2 + Wide(rt), 30), Sh(7, 27), Sh(is_load, 22), Sh(1, 21),
               Sh(Num(second), 16), Sh(3, 13), Sh(1, 12), Sh(2, 10), Sh(Num(rn), 5),
               I(Num(rt))>>)
    ELSE WordOrRaise(
             <<rt, op1, rn>>,
             <<Sh(2 + Wide(rt), 30), Sh(7, 27), Sh(1, 24), Sh(is_load, 22),
               Sh(Num(rn), 5), I(Num(rt))>>)

LdrStrMem(is_load, rt, op1, mem) ==
    LdrStrWord(is_load, rt, op1, MemForm(mem), MemBase(mem, MemForm(mem)),
               MemOffset(mem, MemForm(mem)))

\* _encode_ldr_str(mnem, ops)
encode_ldr_str(mnem, ops) ==
    LdrStrMem(B(Contains(mnem, <<"l", "d", "r">>)), RegAt(ops, 0), OpAt(ops, 1),
              Strip(ValOr(OpAt(ops, 1), <<>>)))

LdpStpWord(is_load, rt1, rt2, op2, with_imm, rn, imm) ==
    WordOrRaise(
        <<rt1, rt2, op2, rn, imm>>,
        <<Sh(2 * Wide(rt1), 30), Sh(5, 27), Sh(2, 23), Sh(is_load, 22),
          IShl(IF with_imm THEN IAnd(IShr(Imm(imm), 3), I(127)) ELSE I(0), 15),
          Sh(Num(rt2), 10), Sh(Num(rn), 5), I(Num(rt1))>>)

LdpStpMem(is_load, rt1, rt2, op2, mem) ==
    LdpStpWord(is_load, rt1, rt2, op2, MemForm(mem) = "imm",
               MemBase(mem, IF MemForm(mem) = "imm" THEN "imm" ELSE "base"),
               MemOffset(mem, IF MemForm(mem) = "imm" THEN "imm" ELSE "base"))

\* _encode_ldp_stp(mnem, ops)
encode_ldp_stp(mnem, ops) ==
    LdpStpMem(B(Contains(mnem, <<"l", "d", "p">>)), RegAt(ops, 0), RegAt(ops, 1), OpAt(ops, 2),
              Strip(ValOr(OpAt(ops, 2), <<>>)))

\* the offset _encode_adr_adrp encodes for a known label
AdrOffset(mnem, delta) ==
    IF mnem = <<"a", "d", "r", "p">> THEN IAnd(IShr(delta, 12), Hex32(31, 65535)) ELSE delta

AdrWord(mnem, rd, op1, known, offset, rel) ==
    IF ~FirstRaise(<<rd, op1>>).ok THEN FirstRaise(<<rd, op1>>)
    ELSE OkRel(IOrAll(<<Sh(B(mnem = <<"a", "d", "r", "p">>), 31),
                        IShl(IF known THEN IAnd(offset, I(3)) ELSE I(0), 29),
                        Sh(16, 24),
                        IShl(IF known THEN IAnd(IShr(offset, 2), Hex32(7, 65535))
                             ELSE I(0), 5),
                        I(Num(rd))>>),
               IF known THEN <<>> ELSE rel)

AdrLabel(mnem, rd, op1, label, lbls, addr) ==
    AdrWord(mnem, rd, op1, HasLabel(lbls, label),
            IF HasLabel(lbls, label) THEN AdrOffset(mnem, ISub(lbls[label], addr))
            ELSE I(0),
            <<<<addr, label, mnem>>>>)

\* _encode_adr_adrp(mnem, ops), reading self.labels and self.address
encode_adr_adrp(mnem, ops, lbls, addr) ==
    AdrLabel(mnem, RegAt(ops, 0), OpAt(ops, 1), Strip(ValOr(OpAt(ops, 1), <<>>)),
             lbls, addr)

\* self.conditions
conditions ==
    <<<<<<"e", "q">>, 0>>, <<<<"n", "e">>, 1>>, <<<<"c", "s">>, 2>>, <<<<"h", "s">>, 2>>, <<<<"c", "c">>, 3>>,
      <<<<"l", "o">>, 3>>, <<<<"m", "i">>, 4>>, <<<<"p", "l">>, 5>>, <<<<"v", "s">>, 6>>, <<<<"v", "c">>, 7>>,
      <<<<"h", "i">>, 8>>, <<<<"l", "s">>, 9>>, <<<<"g", "e">>, 10>>, <<<<"l", "t">>, 11>>, <<<<"g", "t">>, 12>>,
      <<<<"l", "e">>, 13>>, <<<<"a", "l">>, 14>>>>

\* Condition.AL
ConditionAL == 14

\* BranchOffset reading a label missing from the table as address 0
BranchOffsetMissingAsZero(lbls, addr, label, mask) ==
    IF HasLabel(lbls, label) THEN IAnd(IShr(ISub(lbls[label], addr), 2), mask)
    ELSE IAnd(IShr(ISub(I(0), addr), 2), mask)

\* the offset a label-taking encoder encodes: for a label of the table
\* ((self.labels[label] - self.address) >> 2) & mask, else the placeholder 0
BranchOffset(lbls, addr, label, mask) ==
    IF HasLabel(lbls, label) THEN IAnd(IShr(ISub(lbls[label], addr), 2), mask)
    ELSE I(0)

\* the entry a label-taking encoder appends for a label missing from the table
BranchRel(lbls, addr, label, rel_type) ==
    IF HasLabel(lbls, label) THEN <<>> ELSE <<<<addr, label, rel_type>>>>

BBlWord(is_link, op0, label, lbls, addr) ==
    IF ~op0.ok THEN op0
    ELSE OkRel(IOrAll(<<Sh(is_link, 31), Sh(5, 26),
                        BranchOffset(lbls, addr, label, Hex32(1023, 65535))>>),
               BranchRel(lbls, addr, label, <<"b">>))

\* _encode_b_bl(mnem, ops)
encode_b_bl(mnem, ops, lbls, addr) ==
    BBlWord(B(mnem = <<"b", "l">>), OpAt(ops, 0), Strip(ValOr(OpAt(ops, 0), <<>>)), lbls, addr)

\* the condition text of _encode_b_cond
CondText(mnem, ops) ==
    IF Contains(mnem, <<".">>) THEN SplitOn(mnem, ".")[2]
    ELSE StripSet(ValOr(OpAt(ops, 0), <<>>), {"."})

BCondWord(cond, first, last, label, lbls, addr) ==
    IF ~FirstRaise(<<first, last>>).ok THEN FirstRaise(<<first, last>>)
    ELSE OkRel(IOrAll(<<Sh(84, 24),
                        IShl(BranchOffset(lbls, addr, label, Hex32(7, 65535)), 5),
                        I(cond)>>),
               BranchRel(lbls, addr, label, <<"b", "c", "o", "n", "d">>))

\* ops[-1]
LastOp(ops) == IF Len(ops) = 0 THEN Raise("IndexError") ELSE Ok(ops[Len(ops)])

\* _encode_b_cond(mnem, ops)
encode_b_cond(mnem, ops, lbls, addr) ==
    BCondWord(MapGet(conditions, Lower(CondText(mnem, ops)), ConditionAL),
              IF Contains(mnem, <<".">>) THEN Ok(0) ELSE OpAt(ops, 0),
              LastOp(ops), Strip(ValOr(LastOp(ops), <<>>)), lbls, addr)

BrWord(mnem, rn) ==
    IF ~rn.ok THEN rn
    ELSE IF mnem = <<"r", "e", "t">>
    THEN Ok(IOrAll(<<Sh(107, 25), Sh(2, 21), Sh(31, 16), Sh(Num(rn), 5)>>))
    ELSE Ok(IOrAll(<<Sh(107, 25), Sh(B(mnem = <<"b", "l", "r">>), 21), Sh(31, 16),
                     Sh(Num(rn), 5)>>))

\* _encode_br_blr_ret without the default register of a bare ret
encode_br_blr_ret_no_default(mnem, ops) == BrWord(mnem, RegAt(ops, 0))

\* _encode_br_blr_ret(mnem, ops)
encode_br_blr_ret(mnem, ops) ==
    BrWord(mnem,
           IF mnem = <<"r", "e", "t">> /\ (Len(ops) = 0 \/ Strip(ops[1]) = <<>>) THEN Ok(<<30, 1>>)
           ELSE RegAt(ops, 0))

CbWord(is_nz, rt, op1, label, lbls, addr) ==
    IF ~FirstRaise(<<rt, op1>>).ok THEN FirstRaise(<<rt, op1>>)
    ELSE OkRel(IOrAll(<<Sh(Wide(rt), 31), Sh(26, 25), Sh(is_nz, 24),
                        IShl(BranchOffset(lbls, addr, label, Hex32(7, 65535)), 5),
                        I(Num(rt))>>),
               BranchRel(lbls, addr, label, <<"c", "b">>))

\* _encode_cbz_cbnz(mnem, ops)
encode_cbz_cbnz(mnem, ops, lbls, addr) ==
    CbWord(B(mnem = <<"c", "b", "n", "z">>), RegAt(ops, 0), OpAt(ops, 1),
           Strip(ValOr(OpAt(ops, 1), <<>>)), lbls, addr)

TbWord(is_nz, rt, bit, op2, label, lbls, addr) ==
    IF ~FirstRaise(<<rt, bit, op2>>).ok THEN FirstRaise(<<rt, bit, op2>>)
    ELSE OkRel(IOrAll(<<IShl(IAnd(IShr(Imm(bit), 5), I(1)), 31), Sh(27, 25),
                        Sh(is_nz, 24), IShl(IAnd(Imm(bit), I(31)), 19),
                        IShl(BranchOffset(lbls, addr, label, I(16383)), 5),
                        I(Num(rt))>>),
               BranchRel(lbls, addr, label, <<"t", "b">>))

\* _encode_tbz_tbnz(mnem, ops)
encode_tbz_tbnz(mnem, ops, lbls, addr) ==
    TbWord(B(mnem = <<"t", "b", "n", "z">>), RegAt(ops, 0), ImmAt(ops, 1), OpAt(ops, 2),
           Strip(ValOr(OpAt(ops, 2), <<>>)), lbls, addr)

\* _encode_nop(mnem, ops): 0xD503201F
encode_nop(mnem, ops) == Ok(Hex32(54531, 8223))

\* parse_imm(ops[0]) if ops else 0
OptionalImm(ops) == IF Len(ops) > 0 THEN ImmAt(ops, 0) ELSE Ok(I(0))

BrkWord(imm) ==
    IF ~imm.ok THEN imm ELSE Ok(IOrAll(<<Sh(1697, 21), IShl(Imm(imm), 5)>>))

\* _encode_brk(mnem, ops)
encode_brk(mnem, ops) == BrkWord(OptionalImm(ops))

SvcWord(imm) ==
    IF ~imm.ok THEN imm ELSE Ok(IOrAll(<<Sh(1696, 21), IShl(Imm(imm), 5), I(1)>>))

\* _encode_svc(mnem, ops)
encode_svc(mnem, ops) == SvcWord(OptionalImm(ops))

MrsMsrWord(is_read, rt) ==
    IF ~rt.ok THEN rt
    ELSE IF is_read
    THEN Ok(IOrAll(<<Sh(852, 22), Sh(1, 21), Sh(3, 19), I(Num(rt))>>))
    ELSE Ok(IOrAll(<<Sh(852, 22), Sh(0, 21), I(Num(rt))>>))

\* _encode_mrs_msr(mnem, ops)
encode_mrs_msr(mnem, ops) ==
    MrsMsrWord(mnem = <<"m", "r", "s">>, IF mnem = <<"m", "r", "s">> THEN RegAt(ops, 0) ELSE RegAt(ops, 1))

MovRegWord(rd, op1, rm) ==
    WordOrRaise(
        <<rd, op1, rm>>,
        <<Sh(Wide(rd), 31), Sh(1, 29), Sh(10, 24), Sh(Num(rm), 16), Sh(31, 5),
          I(Num(rd))>>)

MovWord(ops, rd, op1, is_imm) ==
    IF ~FirstRaise(<<rd, op1>>).ok THEN FirstRaise(<<rd, op1>>)
    ELSE IF is_imm THEN encode_movz_movn_movk(<<"m", "o", "v", "z">>, ops)
    ELSE MovRegWord(rd, op1, RegAt(ops, 1))

\* _encode_mov(mnem, ops)
encode_mov(mnem, ops) == MovWord(ops, RegAt(ops, 0), OpAt(ops, 1), HashAt(ops, 1))

CmpWord(rn, op1, is_imm, operand) ==
    IF is_imm
    THEN WordOrRaise(
             <<rn, op1, operand>>,
             <<Sh(Wide(rn), 31), Sh(7, 28), Sh(34, 23), IShl(Imm(operand), 10),
               Sh(Num(rn), 5), I(31)>>)
    ELSE WordOrRaise(
             <<rn, op1, operand>>,
             <<Sh(Wide(rn), 31), Sh(7, 28), Sh(11, 24), Sh(Num(operand), 16),
               Sh(Num(rn), 5), I(31)>>)

\* _encode_cmp(mnem, ops)
encode_cmp(mnem, ops) ==
    CmpWord(RegAt(ops, 0), OpAt(ops, 1), HashAt(ops, 1),
            IF HashAt(ops, 1) THEN ImmAt(ops, 1) ELSE RegAt(ops, 1))

CselWord(op2, rd, rn, rm, op3) ==
    WordOrRaise(
        <<rd, rn, rm, op3>>,
        <<Sh(Wide(rd), 31), Sh(212, 21), Sh(Num(rm), 16),
          Sh(MapGet(conditions, Lower(ValOr(op3, <<>>)), ConditionAL), 12),
          Sh(Num(rn), 5), I(Num(rd)), Sh(op2, 10)>>)

\* _encode_csel(mnem, ops)
encode_csel(mnem, ops) ==
    CselWord(MapGet(<<<<<<"c", "s", "e", "l">>, 0>>, <<<<"c", "s", "i", "n", "c">>, 1>>, <<<<"c", "s", "i", "n", "v">>, 2>>,
                      <<<<"c", "s", "n", "e", "g">>, 3>>>>, mnem, 0),
             RegAt(ops, 0), RegAt(ops, 1), RegAt(ops, 2), OpAt(ops, 3))

(***************************************************************************)
(* The two passes and relocation resolution.                               *)
(***************************************************************************)
\* Python None, returned by assemble_instruction for a line without instruction
None == <<>>

\* self.labels[name] = addr
SetLabel(lbls, name, addr) == (name :> addr) @@ lbls

\* the comment removal of assemble_instruction: for each marker in turn, the
\* line is cut at the marker's first occurrence, except that '#' is left
\* alone when the (already cut) line contains '['
CutComment(line, marker) ==
    IF Contains(line, marker) /\ ~(marker = <<"#">> /\ Contains(line, <<"[">>))
    THEN UpTo(line, Find(line, marker))
    ELSE line

RemoveComments(line) ==
    CutComment(CutComment(CutComment(line, <<";">>), <<"/", "/">>), <<"#">>)

\* _try_imm_or_reg(mnem, ops, imm_fn, reg_fn): TRUE when imm_fn is chosen
TryImm(ops) == Len(ops) >= 3 /\ StartsWith(Strip(ops[3]), <<"#">>)

\* the keys of the `encoders` table of assemble_instruction
EncoderKeys ==
    {<<"a", "d", "d">>, <<"a", "d", "d", "s">>, <<"s", "u", "b">>, <<"s", "u", "b", "s">>, <<"a", "n", "d">>, <<"o", "r", "r">>, <<"e", "o", "r">>, <<"a", "n", "d", "s">>,
     <<"b", "i", "c">>, <<"o", "r", "n">>, <<"e", "o", "n">>, <<"m", "o", "v", "z">>, <<"m", "o", "v", "n">>, <<"m", "o", "v", "k">>, <<"m", "o", "v">>, <<"m", "u", "l">>,
     <<"m", "a", "d", "d">>, <<"m", "s", "u", "b">>, <<"s", "d", "i", "v">>, <<"u", "d", "i", "v">>, <<"l", "s", "l">>, <<"l", "s", "r">>, <<"a", "s", "r">>, <<"r", "o", "r">>,
     <<"l", "d", "r">>, <<"s", "t", "r">>, <<"l", "d", "p">>, <<"s", "t", "p">>, <<"a", "d", "r">>, <<"a", "d", "r", "p">>, <<"b">>, <<"b", "l">>, <<"b", "r">>,
     <<"b", "l", "r">>, <<"r", "e", "t">>, <<"c", "b", "z">>, <<"c", "b", "n", "z">>, <<"t", "b", "z">>, <<"t", "b", "n", "z">>, <<"c", "m", "p">>, <<"c", "s", "e", "l">>,
     <<"c", "s", "i", "n", "c">>, <<"c", "s", "i", "n", "v">>, <<"c", "s", "n", "e", "g">>, <<"n", "o", "p">>, <<"b", "r", "k">>, <<"s", "v", "c">>, <<"m", "r", "s">>, <<"m", "s", "r">>}

\* getattr(self, name)(mnem, ops): the encoder method of the given name
EncoderByName(name, mnem, ops, lbls, addr) ==
    IF name = "_encode_add_sub_imm" THEN encode_add_sub_imm(mnem, ops)
    ELSE IF name = "_encode_logical_imm" THEN encode_logical_imm(mnem, ops)
    ELSE IF name = "_encode_movz_movn_movk" THEN encode_movz_movn_movk(mnem, ops)
    ELSE IF name = "_encode_add_sub_reg" THEN encode_add_sub_reg(mnem, ops)
    ELSE IF name = "_encode_logical_reg" THEN encode_logical_reg(mnem, ops)
    ELSE IF name = "_encode_mul_div" THEN encode_mul_div(mnem, ops)
    ELSE IF name = "_encode_shift" THEN encode_shift(mnem, ops)
    ELSE IF name = "_encode_ldr_str" THEN encode_ldr_str(mnem, ops)
    ELSE IF name = "_encode_ldp_stp" THEN encode_ldp_stp(mnem, ops)
    ELSE IF name = "_encode_adr_adrp" THEN encode_adr_adrp(mnem, ops, lbls, addr)
    ELSE IF name = "_encode_b_bl" THEN encode_b_bl(mnem, ops, lbls, addr)
    ELSE IF name = "_encode_b_cond" THEN encode_b_cond(mnem, ops, lbls, addr)
    ELSE IF name = "_encode_br_blr_ret" THEN encode_br_blr_ret(mnem, ops)
    ELSE IF name = "_encode_cbz_cbnz" THEN encode_cbz_cbnz(mnem, ops, lbls, addr)
    ELSE IF name = "_encode_tbz_tbnz" THEN encode_tbz_tbnz(mnem, ops, lbls, addr)
    ELSE IF name = "_encode_nop" THEN encode_nop(mnem, ops)
    ELSE IF name = "_encode_brk" THEN encode_brk(mnem, ops)
    ELSE IF name = "_encode_svc" THEN encode_svc(mnem, ops)
    ELSE IF name = "_encode_mrs_msr" THEN encode_mrs_msr(mnem, ops)
    ELSE IF name = "_encode_mov" THEN encode_mov(mnem, ops)
    ELSE IF name = "_encode_cmp" THEN encode_cmp(mnem, ops)
    ELSE IF name = "_encode_csel" THEN encode_csel(mnem, ops)
    ELSE Raise("AttributeError")

\* the method encoders[mnem] calls, for a key of the table
MethodOf(mnem, ops) ==
    IF mnem \in {<<"a", "d", "d">>, <<"a", "d", "d", "s">>, <<"s", "u", "b">>, <<"s", "u", "b", "s">>}
    THEN IF TryImm(ops) THEN "_encode_add_sub_imm" ELSE "_encode_add_sub_reg"
    ELSE IF mnem \in {<<"a", "n", "d">>, <<"o", "r", "r">>, <<"e", "o", "r">>, <<"a", "n", "d", "s">>}
    THEN IF TryImm(ops) THEN "_encode_logical_imm" ELSE "_encode_logical_reg"
    ELSE IF mnem \in {<<"b", "i", "c">>, <<"o", "r", "n">>, <<"e", "o", "n">>} THEN "_encode_logical_reg"
    ELSE IF mnem \in {<<"m", "o", "v", "z">>, <<"m", "o", "v", "n">>, <<"m", "o", "v", "k">>} THEN "_encode_movz_movn_movk"
    ELSE IF mnem = <<"m", "o", "v">> THEN "_encode_mov"
    ELSE IF mnem \in {<<"m", "u", "l">>, <<"m", "a", "d", "d">>, <<"m", "s", "u", "b">>, <<"s", "d", "i", "v">>, <<"u", "d", "i", "v">>}
    THEN "_encode_mul_div"
    ELSE IF mnem \in {<<"l", "s", "l">>, <<"l", "s", "r">>, <<"a", "s", "r">>, <<"r", "o", "r">>} THEN "_encode_shift"
    ELSE IF mnem \in {<<"l", "d", "r">>, <<"s", "t", "r">>} THEN "_encode_ldr_str"
    ELSE IF mnem \in {<<"l", "d", "p">>, <<"s", "t", "p">>} THEN "_encode_ldp_stp"
    ELSE IF mnem \in {<<"a", "d", "r">>, <<"a", "d", "r", "p">>} THEN "_encode_adr_adrp"
    ELSE IF mnem \in {<<"b">>, <<"b", "l">>} THEN "_encode_b_bl"
    ELSE IF mnem \in {<<"b", "r">>, <<"b", "l", "r">>, <<"r", "e", "t">>} THEN "_encode_br_blr_ret"
    ELSE IF mnem \in {<<"c", "b", "z">>, <<"c", "b", "n", "z">>} THEN "_encode_cbz_cbnz"
    ELSE IF mnem \in {<<"t", "b", "z">>, <<"t", "b", "n", "z">>} THEN "_encode_tbz_tbnz"
    ELSE IF mnem = <<"c", "m", "p">> THEN "_encode_cmp"
    ELSE IF mnem \in {<<"c", "s", "e", "l">>, <<"c", "s", "i", "n", "c">>, <<"c", "s", "i", "n", "v">>, <<"c", "s", "n", "e", "g">>} THEN "_encode_csel"
    ELSE IF mnem = <<"n", "o", "p">> THEN "_encode_nop"
    ELSE IF mnem = <<"b", "r", "k">> THEN "_encode_brk"
    ELSE IF mnem = <<"s", "v", "c">> THEN "_encode_svc"
    ELSE "_encode_mrs_msr"

\* encoders[mnem]() for a key of the table
Dispatch(mnem, ops, lbls, addr) ==
    EncoderByName(MethodOf(mnem, ops), mnem, ops, lbls, addr)

\* the operand list of assemble_instruction:
\* [p.strip() for p in ' '.join(parts[1:]).split(',') if p.strip()]
\* where parts = line.replace(',', ' ').split()
Operands(parts) ==
    LET pieces == SplitOn(Join(Tail(parts), <<" ">>), ",")
    IN  NonEmpty([k \in 1..Len(pieces) |-> Strip(pieces[k])])

\* the label handling of a line: does the line carry a `label:` prefix
HasLabelPrefix(line) == Contains(line, <<":">>) /\ ~Contains(line, <<"[">>)

\* the instruction of a tokenized line: the encoder method the dispatch of
\* assemble_instruction calls ("unknown" when it calls none), with the
\* lower-cased mnemonic and the operand list it passes
InsOfTokens(parts) ==
    [name |-> IF StartsWith(Lower(parts[1]), <<"b", ".">>) THEN "_encode_b_cond"
              ELSE IF Lower(parts[1]) \in EncoderKeys
              THEN MethodOf(Lower(parts[1]), Operands(parts))
              ELSE "unknown",
     mnem |-> Lower(parts[1]),
     ops |-> Operands(parts)]

\* the call of the instruction's encoder in the state (self.labels,
\* self.address), or the ValueError of an unknown mnemonic
Encode(ins, lbls, addr) ==
    IF ins.name = "unknown" THEN Raise("ValueError")
    ELSE EncoderByName(ins.name, ins.mnem, ins.ops, lbls, addr)

\* the rest of assemble_instruction once the label prefix is handled: the
\* line is tokenized and dispatched on its lower-cased mnemonic
EncodeTokens(parts, lbls, addr) == Encode(InsOfTokens(parts), lbls, addr)

\* what assemble_instruction hands back: the outcome, self.labels afterwards
\* and the entries appended to self.relocations
LineResult(enc, lbls) ==
    [out |-> IF enc.ok THEN Ok(enc.v) ELSE enc, labels |-> lbls, rel |-> RelOf(enc)]

EncodeLine(line, lbls, addr) ==
    IF line = <<>> \/ SplitWS(Replace(line, ",", " ")) = <<>>
    THEN [out |-> Ok(None), labels |-> lbls, rel |-> <<>>]
    ELSE LineResult(EncodeTokens(SplitWS(Replace(line, ",", " ")), lbls, addr), lbls)

\* the label handling of assemble_instruction, on the line without comments:
\* a `label:` prefix is recorded at the current address and removed
HandleLabel(line, lbls, addr) ==
    EncodeLine(IF line # <<>> /\ HasLabelPrefix(line)
               THEN Strip(SplitOnce(line, ":")[2]) ELSE line,
               IF line # <<>> /\ HasLabelPrefix(line)
               THEN SetLabel(lbls, Strip(SplitOnce(line, ":")[1]), addr) ELSE lbls,
               addr)

\* assemble_instruction(line) in the state (self.labels, self.address):
\* out is Ok(word), Ok(None) or Raise(exception); labels is self.labels
\* afterwards and rel the entries appended to self.relocations
assemble_instruction(line, lbls, addr) ==
    HandleLabel(RemoveComments(Strip(line)), lbls, addr)

\* the first loop of assemble on one line: is the line skipped at once
Pass1Skipped(line0) ==
    \/ Strip(line0) = <<>>
    \/ StartsWith(Strip(line0), <<";">>)
    \/ StartsWith(Strip(line0), <<"/", "/">>)

\* does the line define a label, and which
Pass1Labelled(line0) == ~Pass1Skipped(line0) /\ HasLabelPrefix(Strip(line0))

Pass1Label(line0) == Strip(SplitOnce(Strip(line0), ":")[1])

\* the line after the label handling
Pass1Rest(line0) ==
    IF HasLabelPrefix(Strip(line0)) THEN Strip(SplitOnce(Strip(line0), ":")[2])
    ELSE Strip(line0)

\* does the line advance self.address
Pass1Counted(line0) ==
    /\ ~Pass1Skipped(line0)
    /\ ~StartsWith(Pass1Rest(line0), <<".">>)
    /\ Pass1Rest(line0) # <<>>
    /\ ~StartsWith(Pass1Rest(line0), <<";">>)
    /\ ~StartsWith(Pass1Rest(line0), <<"/", "/">>)

\* one iteration of the first loop of assemble (label collection), run
\* without interruption: the label table and the address after the line
Pass1Line(line0, lbls, addr) ==
    [labels |-> IF Pass1Labelled(line0) THEN SetLabel(lbls, Pass1Label(line0), addr)
                ELSE lbls,
     address |-> IF Pass1Counted(line0) THEN IAdd(addr, I(4)) ELSE addr]

\* a small integer held as a pair
ToInt(p) == p[1] * Limb + p[2]

\* a patch whose conditional-branch mask keeps bits [31:24] only
PatchWideMask(instr, offset, target, rel_type) ==
    LET word_delta == IShr(ISub(target, offset), 2)
        byte_delta == IF rel_type = <<"a", "d", "r", "p">> THEN IShr(ISub(target, offset), 12)
                      ELSE ISub(target, offset)
    IN  IF rel_type \in {<<"b">>, <<"b", "l">>}
        THEN IOr(IAnd(instr, Hex32(64512, 0)), IAnd(word_delta, Hex32(1023, 65535)))
        ELSE IF rel_type = <<"b", "c", "o", "n", "d">> \/ rel_type \in {<<"c", "b">>, <<"c", "b", "z">>, <<"c", "b", "n", "z">>}
        THEN IOr(IAnd(instr, Hex32(65280, 0)),
                 IShl(IAnd(word_delta, Hex32(7, 65535)), 5))
        ELSE IF rel_type \in {<<"t", "b">>, <<"t", "b", "z">>, <<"t", "b", "n", "z">>}
        THEN IOr(IAnd(instr, Hex32(65528, 31)), IShl(IAnd(word_delta, I(16383)), 5))
        ELSE IF rel_type \in {<<"a", "d", "r">>, <<"a", "d", "r", "p">>}
        THEN IOrAll(<<IAnd(instr, Hex32(40704, 31)), IShl(IAnd(byte_delta, I(3)), 29),
                      IShl(IAnd(IShr(byte_delta, 2), Hex32(7, 65535)), 5)>>)
        ELSE instr

\* a patch that adds the branch offset to the word without clearing the field
PatchAdditive(instr, offset, target, rel_type) ==
    LET word_delta == IShr(ISub(target, offset), 2)
        byte_delta == IF rel_type = <<"a", "d", "r", "p">> THEN IShr(ISub(target, offset), 12)
                      ELSE ISub(target, offset)
    IN  IF rel_type \in {<<"b">>, <<"b", "l">>}
        THEN IAdd(instr, IAnd(word_delta, Hex32(1023, 65535)))
        ELSE IF rel_type = <<"b", "c", "o", "n", "d">> \/ rel_type \in {<<"c", "b">>, <<"c", "b", "z">>, <<"c", "b", "n", "z">>}
        THEN IOr(IAnd(instr, Hex32(65280, 31)),
                 IShl(IAnd(word_delta, Hex32(7, 65535)), 5))
        ELSE IF rel_type \in {<<"t", "b">>, <<"t", "b", "z">>, <<"t", "b", "n", "z">>}
        THEN IOr(IAnd(instr, Hex32(65528, 31)), IShl(IAnd(word_delta, I(16383)), 5))
        ELSE IF rel_type \in {<<"a", "d", "r">>, <<"a", "d", "r", "p">>}
        THEN IOrAll(<<IAnd(instr, Hex32(40704, 31)), IShl(IAnd(byte_delta, I(3)), 29),
                      IShl(IAnd(IShr(byte_delta, 2), Hex32(7, 65535)), 5)>>)
        ELSE instr

\* the patch one relocation entry applies to its instruction word
Patch(instr, offset, target, rel_type) ==
    LET word_delta == IShr(ISub(target, offset), 2)
        byte_delta == IF rel_type = <<"a", "d", "r", "p">> THEN IShr(ISub(target, offset), 12)
                      ELSE ISub(target, offset)
    IN  IF rel_type \in {<<"b">>, <<"b", "l">>}
        THEN IOr(IAnd(instr, Hex32(64512, 0)), IAnd(word_delta, Hex32(1023, 65535)))
        ELSE IF rel_type = <<"b", "c", "o", "n", "d">> \/ rel_type \in {<<"c", "b">>, <<"c", "b", "z">>, <<"c", "b", "n", "z">>}
        THEN IOr(IAnd(instr, Hex32(65280, 31)),
                 IShl(IAnd(word_delta, Hex32(7, 65535)), 5))
        ELSE IF rel_type \in {<<"t", "b">>, <<"t", "b", "z">>, <<"t", "b", "n", "z">>}
        THEN IOr(IAnd(instr, Hex32(65528, 31)), IShl(IAnd(word_delta, I(16383)), 5))
        ELSE IF rel_type \in {<<"a", "d", "r">>, <<"a", "d", "r", "p">>}
        THEN IOrAll(<<IAnd(instr, Hex32(40704, 31)), IShl(IAnd(byte_delta, I(3)), 29),
                      IShl(IAnd(IShr(byte_delta, 2), Hex32(7, 65535)), 5)>>)
        ELSE instr

\* a resolver whose loop ends at the first entry with an undefined label
RECURSIVE resolve_relocations_break(_, _, _, _)
resolve_relocations_break(mc, lbls, rels, base_address) ==
    IF rels = <<>> THEN [mc |-> mc, warnings |-> <<>>, ok |-> TRUE]
    ELSE LET offset == Head(rels)[1]
             label == Head(rels)[2]
             rel_type == Head(rels)[3]
             idx == ToInt(IFloorDiv(ISub(offset, base_address), 4))
             pos == IF idx >= 0 THEN idx + 1 ELSE Len(mc) + idx + 1
             rest == resolve_relocations_break(mc, lbls, Tail(rels), base_address)
         IN  IF ~HasLabel(lbls, label)
             THEN [mc |-> mc, warnings |-> <<[kind |-> "warning", label |-> label]>>,
                   ok |-> TRUE]
             ELSE IF idx >= Len(mc) THEN rest
             ELSE IF pos < 1 THEN [mc |-> mc, warnings |-> <<>>, ok |-> FALSE]
             ELSE resolve_relocations_break(
                      [mc EXCEPT ![pos] = Patch(mc[pos], offset, lbls[label], rel_type)],
                      lbls, Tail(rels), base_address)

\* _resolve_relocations(base_address) over the entries rels, in order:
\* the buffer afterwards, the warnings printed, and whether an IndexError
\* was raised (an index below -len(machine_code))
RECURSIVE resolve_relocations(_, _, _, _)
resolve_relocations(mc, lbls, rels, base_address) ==
    IF rels = <<>> THEN [mc |-> mc, warnings |-> <<>>, ok |-> TRUE]
    ELSE LET offset == Head(rels)[1]
             label == Head(rels)[2]
             rel_type == Head(rels)[3]
             idx == ToInt(IFloorDiv(ISub(offset, base_address), 4))
             pos == IF idx >= 0 THEN idx + 1 ELSE Len(mc) + idx + 1
             rest == resolve_relocations(mc, lbls, Tail(rels), base_address)
         IN  IF ~HasLabel(lbls, label)
             THEN [rest EXCEPT !.warnings =
                      <<[kind |-> "warning", label |-> label]>> \o rest.warnings]
             ELSE IF idx >= Len(mc) THEN rest
             ELSE IF pos < 1 THEN [mc |-> mc, warnings |-> <<>>, ok |-> FALSE]
             ELSE resolve_relocations(
                      [mc EXCEPT ![pos] = Patch(mc[pos], offset, lbls[label], rel_type)],
                      lbls, Tail(rels), base_address)

(***************************************************************************)
(* The Mach-O emitter (generate_macho).  A file is the record              *)
(* [head, code]: head holds the bytes written from offset 0, code the      *)
(* bytes written from offset TextFileOff after the seek; the bytes between *)
(* the two are the zeros of the hole the seek leaves.  The file object     *)
(* buffers what is written; the bytes reach the file when it seeks or is   *)
(* closed (the images of the model stay below the size of the buffer).     *)
(***************************************************************************)
\* text_fileoff = 0x4000
TextFileOff == 16384

\* text_addr taken as 0, so that the entry offset is the absolute address
TextAddrZero == <<0, 0>>

\* text_addr = 0x100000000
TextAddr == <<65536, 0>>

\* a file that does not exist
Absent == [exists |-> FALSE]

\* the little-endian bytes of a 16-bit limb
Bytes16(n) == <<n % 256, n \div 256>>

\* struct.pack('<I', v): struct.error unless 0 <= v < 2^32
PackI(v) ==
    IF IsWord32(v) THEN Ok(Bytes16(v[2]) \o Bytes16(v[1])) ELSE Raise("struct.error")

\* struct.pack('<Q', v): struct.error unless 0 <= v < 2^64
PackQ(v) ==
    IF v[1] >= 0
    THEN Ok(Bytes16(v[2]) \o Bytes16(v[1] % Limb) \o Bytes16(v[1] \div Limb) \o <<0, 0>>)
    ELSE Raise("struct.error")

\* b'__PAGEZERO', b'__TEXT' and b'__text', each padded to 16 bytes
SegPageZero == <<95, 95, 80, 65, 71, 69, 90, 69, 82, 79, 0, 0, 0, 0, 0, 0>>

SegText == <<95, 95, 84, 69, 88, 84, 0, 0, 0, 0, 0, 0, 0, 0, 0, 0>>

SectText == <<95, 95, 116, 101, 120, 116, 0, 0, 0, 0, 0, 0, 0, 0, 0, 0>>

RECURSIVE Concat(_)
Concat(ss) == IF ss = <<>> THEN <<>> ELSE Head(ss) \o Concat(Tail(ss))

\* the 32 header bytes with the given sizeofcmds
MachHeader(sizeofcmds) ==
    Concat(<<PackI(Hex32(65261, 64207)).v, PackI(Hex32(256, 12)).v, PackI(I(0)).v,
             PackI(I(2)).v, PackI(I(3)).v, PackI(I(sizeofcmds)).v,
             PackI(Hex32(32, 133)).v, PackI(I(0)).v>>)

\* the LC_SEGMENT_64 command of __PAGEZERO (72 bytes)
PageZeroCommand ==
    Concat(<<PackI(I(25)).v, PackI(I(72)).v, SegPageZero, PackQ(I(0)).v,
             PackQ(TextAddr).v, PackQ(I(0)).v, PackQ(I(0)).v, PackI(I(0)).v,
             PackI(I(0)).v, PackI(I(0)).v, PackI(I(0)).v>>)

\* the LC_SEGMENT_64 command of __TEXT with its __text section (152 bytes)
TextCommand(text_size) ==
    Concat(<<PackI(I(25)).v, PackI(I(152)).v, SegText, PackQ(TextAddr).v,
             PackQ(I(TextFileOff)).v, PackQ(I(0)).v, PackQ(I(TextFileOff + text_size)).v,
             PackI(I(7)).v, PackI(I(5)).v, PackI(I(1)).v, PackI(I(0)).v,
             SectText, SegText, PackQ(TextAddr).v, PackQ(I(text_size)).v,
             PackI(I(TextFileOff)).v, PackI(I(2)).v, PackI(I(0)).v, PackI(I(0)).v,
             PackI(Hex32(32768, 1024)).v, PackI(I(0)).v, PackI(I(0)).v, PackI(I(0)).v>>)

\* the LC_MAIN command up to and including entryoff, and its stacksize
MainCommandStart == PackI(Hex32(32768, 40)).v \o PackI(I(24)).v

\* the length of a file and its byte at a 0-based offset
FileSize(f) == IF f.code # <<>> THEN TextFileOff + Len(f.code) ELSE Len(f.head)

FileByte(f, o) ==
    IF o < Len(f.head) THEN f.head[o + 1]
    ELSE IF o >= TextFileOff THEN f.code[o - TextFileOff + 1]
    ELSE 0

\* struct.pack('<Q', entry_addr - text_addr): the entryoff field
EntryOff(entry_addr) == PackQ(ISub(entry_addr, TextAddr))

\* the bytes written before entryoff: the header with sizeofcmds 0, the two
\* segment commands and the start of LC_MAIN
BeforeEntry(text_size) ==
    Concat(<<MachHeader(0), PageZeroCommand, TextCommand(text_size), MainCommandStart>>)

\* the three load commands
Commands(text_size, entry_addr) ==
    Concat(<<PageZeroCommand, TextCommand(text_size), MainCommandStart,
             EntryOff(entry_addr).v, PackQ(I(0)).v>>)

\* the file `open(output_file, 'wb')` leaves: created or truncated
Opened == [exists |-> TRUE, head |-> <<>>, code |-> <<>>]

(***************************************************************************)
(* The assembler as a state machine.  One ARM64Assembler instance; the     *)
(* client's assemble, assemble_instruction and encoder calls are drawn in  *)
(* the initial state (todo), generate_macho may be called whenever no call *)
(* is running.  A call advances one access to the instance per step.       *)
(***************************************************************************)
\* bounds of the model: the longest source over CorePool and over WidePool
MaxLines == 4

MaxShort == 2

\* the longest relocation list the direct calls of the resolver try, and
\* the most runs of _resolve_relocations on one state of the instance
MaxRelocs == 2

MaxResolves == 2

\* the most assemble calls made on the instance before the one observed
MaxEarlier == 1

\* source lines the sources are built from
CorePool == {<<"L", ":">>, <<"n", "o", "p">>, <<"b", " ", "L">>, <<"#", " ", "c">>, <<"b", ".", "n", "e", " ", "M">>}

WidePool ==
    {<<"L", ":", " ", "n", "o", "p">>, <<"b", "l", " ", "L">>, <<"b", ".", "e", "q", " ", "L">>, <<"r", "e", "t">>, <<"R", "E", "T", " ", "X", "5">>, <<";", " ", "c">>, <<"/", "/", " ", "c">>, <<>>,
     <<".", "q", "u", "a", "d", " ", "1">>, <<"b", " ", "M">>, <<"b", "l", " ", "M">>, <<"m", "o", "v", " ", "x", "0", ",", " ", "#", "4", "2">>, <<"n", "o", "p", " ", ";", " ", "c">>, <<" ", " ", "b", " ", "L", " ", " ", "#", " ", "c">>,
     <<"M", ":", " ", ";", " ", "c">>}

\* the program of the specification's scenario and other fixed sources
ScenarioSource == <<"_", "s", "t", "a", "r", "t", ":", "\n", "m", "o", "v", " ", "x", "0", ",", " ", "#", "4", "2", "\n", "m", "o", "v", " ", "x", "1", "6", ",", " ", "#", "1", "\n", "s", "v", "c", " ", "#", "0", "x", "8", "0">>

FixedSources ==
    {ScenarioSource,
     <<".", "g", "l", "o", "b", "a", "l", " ", "_", "s", "t", "a", "r", "t", "\n", "_", "s", "t", "a", "r", "t", ":", "\n", "n", "o", "p", "\n", "r", "e", "t">>,
     <<"b", " ", "L", "\n", "#", " ", "c", "\n", "L", ":", " ", "n", "o", "p", "\n", "b", " ", "L">>,
     <<"b", " ", "L", "\n", "n", "o", "p", "\n", "n", "o", "p", "\n", "L", ":", "\n", "n", "o", "p", "\n", "n", "o", "p", "\n", "b", " ", "L">>,
     <<"\n", " ", " ", "\n", "L", ":", "\n", "\n", "b", "l", " ", "L", "\n", "b", ".", "l", "t", " ", "L", "\n">>,
     <<"b", " ", "M", "\n", "b", "l", " ", "L", "\n", "b", ".", "n", "e", " ", "L", "\n", "L", ":", " ", "r", "e", "t", " ", ";", "[">>,
     <<"_", "s", "t", "a", "r", "t", ":", "\n", "s", "v", "c", " ", "1", "3", "4", "2", "1", "7", "7", "2", "8">>,
     <<"_", "s", "t", "a", "r", "t", ":">>,
     <<"n", "o", "p", " ", ";", " ", "n", "o", "t", "e", ":", " ", "x">>}

SeqsUpTo(S, n) == UNION {[1..k -> S] : k \in 0..n}

Sources ==
    {Join(ls, <<"\n">>) : ls \in SeqsUpTo(CorePool, MaxLines)}
    \cup {Join(ls, <<"\n">>) : ls \in SeqsUpTo(WidePool, MaxShort)}
    \cup FixedSources

\* the default base_address 0x100000000 and another one
DefaultBase == <<65536, 0>>

OtherBase == <<0, 4096>>

AssembleCalls ==
    {[op |-> "assemble", source |-> s, base_address |-> DefaultBase] : s \in Sources}
    \cup {[op |-> "assemble", source |-> s, base_address |-> OtherBase] :
              s \in FixedSources}

\* earlier runs on the same instance: one that returns leaving labels, a
\* relocation and a warning, one that raises in pass 2 leaving a partial
\* buffer, and one that emits nothing
EarlierSources == {<<"b", " ", "M", "\n", "L", ":", "\n", "n", "o", "p">>, <<"L", ":", "\n", "n", "o", "p", "\n", "b", " ", "M", "\n", "b", "o", "g", "u", "s">>, <<"#", " ", "c">>}

\* the runs that follow them
FollowingSources ==
    {<<"n", "o", "p">>, <<"b", " ", "L">>, <<"L", ":", "\n", "b", " ", "L", "\n", "b", " ", "M">>, <<"b", "o", "g", "u", "s">>, <<>>, <<"M", ":", " ", "r", "e", "t", "\n", "b", "l", " ", "M">>,
     <<"n", "o", "p", "\n", "a", "d", "d", " ", "x", "0">>, ScenarioSource}

AssembleCall(s) == [op |-> "assemble", source |-> s, base_address |-> DefaultBase]

\* sequences of assemble calls on one instance
RunSequences ==
    {earlier \o <<AssembleCall(s)>> :
        earlier \in SeqsUpTo({AssembleCall(e) : e \in EarlierSources}, MaxEarlier) \ {<<>>},
        s \in FollowingSources}

\* the text of an immediate operand: '#' and the decimal digits of n
ImmText(n) == IF n < 0 THEN <<"#", "-">> \o Dec(-n) ELSE <<"#">> \o Dec(n)

\* register operands, immediates and memory offsets the direct calls use
RegSample == {<<"x", "0">>, <<"x", "1">>, <<"x", "3", "0">>, <<"s", "p">>, <<"w", "5">>, <<"w", "z", "r">>}

In12 == {0, 1, 2, 42, 2047, 2048, 4094, 4095}

Out12 == {-1, 4096, 4097, 65536}

In16 == {0, 42, 255, 43690, 65534, 65535} \cup {Pow2(k) : k \in 0..15}

Out16 == {-1, 65536, 65537, 1048576}

InBit == {0, 1, 31, 32, 63}

OutBit == {-1, 64, 100}

InPair == {-512, -8, 0, 8, 16, 504}

OutPair == {-520, 512, 1024}

InMem == {0, 8, 4096, 32760}

OutMem == {-8, 32768, 65536}

\* a direct call of an encoder method
EncoderCall(name, mnem, ops) == [op |-> "encoder", name |-> name, mnem |-> mnem, ops |-> ops]

AddSubImmCall(mnem, rd, rn, n) ==
    EncoderCall("_encode_add_sub_imm", mnem, <<rd, rn, ImmText(n)>>)

MovWideCall(mnem, rd, n) == EncoderCall("_encode_movz_movn_movk", mnem, <<rd, ImmText(n)>>)

CmpCall(rn, n) == EncoderCall("_encode_cmp", <<"c", "m", "p">>, <<rn, ImmText(n)>>)

CmpRegCall(rn, rm) == EncoderCall("_encode_cmp", <<"c", "m", "p">>, <<rn, rm>>)

MulDivCall(mnem, rd, rn, rm) == EncoderCall("_encode_mul_div", mnem, <<rd, rn, rm>>)

SvcCall(n) == EncoderCall("_encode_svc", <<"s", "v", "c">>, <<ImmText(n)>>)

BrkCall(n) == EncoderCall("_encode_brk", <<"b", "r", "k">>, <<ImmText(n)>>)

LdpStpCall(mnem, n) ==
    EncoderCall("_encode_ldp_stp", mnem, <<<<"x", "0">>, <<"x", "1">>, <<"[", "s", "p", ",", " ">> \o ImmText(n) \o <<"]">>>>)

LdrStrCall(mnem, n) ==
    EncoderCall("_encode_ldr_str", mnem, <<<<"x", "0">>, <<"[", "x", "1", ",", " ">> \o ImmText(n) \o <<"]">>>>)

TbCall(mnem, n) == EncoderCall("_encode_tbz_tbnz", mnem, <<<<"x", "0">>, ImmText(n), <<"L">>>>)

\* calls of the other encoder methods, of a method under a mnemonic that is
\* not its own, and of a name that is no method
OtherEncoderCalls ==
    {EncoderCall("_encode_logical_imm", m, <<<<"x", "0">>, <<"x", "1">>, ImmText(n)>>) :
         m \in {<<"a", "n", "d">>, <<"o", "r", "r">>, <<"e", "o", "r">>, <<"a", "n", "d", "s">>}, n \in {0, 1, 255, 4095, 4096}}
    \cup {EncoderCall("_encode_add_sub_reg", m, <<rd, <<"x", "1">>, rm>>) :
              m \in {<<"a", "d", "d">>, <<"s", "u", "b">>, <<"a", "d", "d", "s">>, <<"s", "u", "b", "s">>}, rd \in RegSample,
              rm \in RegSample}
    \cup {EncoderCall("_encode_logical_reg", m, <<<<"x", "0">>, rn, <<"x", "2">>>>) :
              m \in {<<"a", "n", "d">>, <<"o", "r", "r">>, <<"e", "o", "r">>, <<"a", "n", "d", "s">>, <<"b", "i", "c">>, <<"o", "r", "n">>, <<"e", "o", "n">>, <<"b", "i", "c", "s">>},
              rn \in RegSample}
    \cup {EncoderCall("_encode_shift", m, <<<<"x", "0">>, <<"x", "1">>, o>>) :
              m \in {<<"l", "s", "l">>, <<"l", "s", "r">>, <<"a", "s", "r">>, <<"r", "o", "r">>},
              o \in {<<"x", "2">>, <<"#", "0">>, <<"#", "1">>, <<"#", "6", "3">>, <<"#", "6", "4">>}}
    \cup {EncoderCall("_encode_adr_adrp", m, <<rd, l>>) :
              m \in {<<"a", "d", "r">>, <<"a", "d", "r", "p">>}, rd \in RegSample, l \in {<<"L">>, <<"M">>}}
    \cup {EncoderCall("_encode_b_bl", m, ops) :
              m \in {<<"b">>, <<"b", "l">>}, ops \in {<<<<"L">>>>, <<<<"M">>, <<"x">>>>, <<>>}}
    \cup {EncoderCall("_encode_b_cond", m, ops) :
              m \in {<<"b", ".", "e", "q">>, <<"b", ".", "n", "e">>, <<"B", ".", "G", "T">>, <<"b", ".", "z", "z">>, <<"b", "c", "o", "n", "d">>},
              ops \in {<<<<"L">>>>, <<<<"n", "e">>, <<"L">>>>, <<>>}}
    \cup {EncoderCall("_encode_br_blr_ret", m, ops) :
              m \in {<<"b", "r">>, <<"b", "l", "r">>, <<"r", "e", "t">>},
              ops \in {<<>>} \cup {<<r>> : r \in RegSample}}
    \cup {EncoderCall("_encode_cbz_cbnz", m, <<rt, <<"L">>>>) :
              m \in {<<"c", "b", "z">>, <<"c", "b", "n", "z">>}, rt \in RegSample}
    \cup {EncoderCall("_encode_nop", <<"n", "o", "p">>, ops) : ops \in {<<>>, <<<<"x", "0">>>>}}
    \cup {EncoderCall("_encode_mrs_msr", m, ops) :
              m \in {<<"m", "r", "s">>, <<"m", "s", "r">>},
              ops \in {<<<<"x", "0">>, <<"n", "z", "c", "v">>>>, <<<<"n", "z", "c", "v">>, <<"x", "0">>>>, <<<<"x", "0">>, <<"x", "1">>>>}}
    \cup {EncoderCall("_encode_mov", <<"m", "o", "v">>, <<rd, o>>) :
              rd \in RegSample, o \in RegSample \cup {<<"#", "0">>, <<"#", "4", "2">>, <<"#", "6", "5", "5", "3", "6">>, <<"#", "-", "1">>}}
    \cup {EncoderCall("_encode_csel", m, <<<<"x", "0">>, <<"x", "1">>, <<"x", "2">>, c>>) :
              m \in {<<"c", "s", "e", "l">>, <<"c", "s", "i", "n", "c">>, <<"c", "s", "i", "n", "v">>, <<"c", "s", "n", "e", "g">>},
              c \in {<<"e", "q">>, <<"N", "E">>, <<"l", "t">>, <<"z", "z">>}}
    \cup {EncoderCall("_encode_tbz_tbnz", <<"n", "o", "p">>, <<>>),
          EncoderCall("_encode_add_sub_imm", <<"r", "e", "t">>, <<<<"x", "0">>, <<"x", "1">>, <<"#", "1">>>>),
          EncoderCall("_encode_none", <<"n", "o", "p">>, <<>>)}

EncoderCalls ==
    {AddSubImmCall(m, rd, rn, n) : m \in {<<"a", "d", "d">>, <<"s", "u", "b">>, <<"a", "d", "d", "s">>, <<"s", "u", "b", "s">>},
                                   rd \in RegSample, rn \in RegSample,
                                   n \in In12 \cup Out12}
    \cup {AddSubImmCall(<<"a", "d", "d">>, <<"x", "0">>, <<"x", "1">>, n) : n \in 0..4095}
    \cup {EncoderCall("_encode_add_sub_imm", <<"a", "d", "d">>, <<<<"x", "0">>, <<"x", "1">>, <<"#", "1">>, <<"l", "s", "l", " ", "#", "1", "2">>>>)}
    \cup {MovWideCall(m, rd, n) : m \in {<<"m", "o", "v", "z">>, <<"m", "o", "v", "n">>, <<"m", "o", "v", "k">>}, rd \in RegSample,
                                  n \in In16 \cup Out16}
    \cup {CmpCall(rn, n) : rn \in RegSample, n \in In12 \cup Out12}
    \cup {CmpRegCall(rn, rm) : rn \in RegSample, rm \in RegSample}
    \cup {MulDivCall(m, rd, rn, rm) : m \in {<<"u", "d", "i", "v">>, <<"s", "d", "i", "v">>}, rd \in RegSample,
                                      rn \in RegSample, rm \in RegSample}
    \cup {SvcCall(n) : n \in In16 \cup Out16}
    \cup {BrkCall(n) : n \in In16 \cup Out16}
    \cup {EncoderCall("_encode_svc", <<"s", "v", "c">>, <<>>), EncoderCall("_encode_brk", <<"b", "r", "k">>, <<>>)}
    \cup {LdpStpCall(m, n) : m \in {<<"l", "d", "p">>, <<"s", "t", "p">>}, n \in InPair \cup OutPair}
    \cup {LdrStrCall(m, n) : m \in {<<"l", "d", "r">>, <<"s", "t", "r">>}, n \in InMem \cup OutMem}
    \cup {TbCall(m, n) : m \in {<<"t", "b", "z">>, <<"t", "b", "n", "z">>}, n \in InBit \cup OutBit}
    \cup OtherEncoderCalls

\* a direct call of assemble_instruction
LineCall(line) == [op |-> "assemble_instruction", line |-> line]

RetLine(n) == <<"r", "e", "t", " ", "x">> \o Dec(n)

\* 'svc #N' / 'svc N' / 'brk #N' / 'brk N': prefix is "#" or empty
TrapLine(mnem, prefix, n) == mnem \o <<" ">> \o prefix \o Dec(n)

\* 'add xd, xn, xm'
AddLine(rd, rn, rm) == <<"a", "d", "d", " ">> \o rd \o <<",", " ">> \o rn \o <<",", " ">> \o rm

LineCalls ==
    {LineCall(RetLine(n)) : n \in 0..30}
    \cup {LineCall(TrapLine(m, p, n)) : m \in {<<"s", "v", "c">>, <<"b", "r", "k">>}, p \in {<<"#">>, <<>>},
                                        n \in In16}
    \cup {LineCall(AddLine(rd, rn, rm)) : rd \in RegSample, rn \in RegSample,
                                          rm \in RegSample}
    \cup {LineCall(l) : l \in {<<"r", "e", "t">>, <<"R", "E", "T", " ", "X", "5">>, <<"r", "e", "t", " ", "l", "r">>, <<" ", " ", "r", "e", "t", " ", " ">>, <<"r", "e", "t", " ", ";", " ", "c">>,
                               <<"n", "o", "p">>, <<"b", " ", "L">>, <<"L", ":", " ", "n", "o", "p">>, <<"L", ":", " ", "r", "e", "t">>, <<"m", "o", "v", " ", "x", "0", ",", " ", "#", "4", "2">>,
                               <<"m", "o", "v", " ", "x", "0", ",", " ", "x", "1">>, <<"a", "d", "d", " ", "x", "0", ",", " ", "x", "1", ",", " ", "x", "2">>, <<"l", "d", "r", " ", "x", "0", ",", " ", "[", "x", "1", ",", " ", "#", "8", "]">>,
                               <<"s", "v", "c", " ", "#", "0", "x", "8", "0">>, <<".", "g", "l", "o", "b", "a", "l", " ", "_", "s", "t", "a", "r", "t">>, <<"#", " ", "c">>, <<>>,
                               <<"b", "o", "g", "u", "s">>, <<"r", "e", "t", " ", "x", "3", "1">>,
                               <<"\f", "n", "o", "p">>, <<"", "r", "e", "t", "">>, <<"s", "v", "c", " ", "#", "1", "_", "0">>, <<"s", "v", "c", " ", "#", "0", "x", "_", "1", "f">>,
                               <<"s", "v", "c", " ", "#", "1", "_", "_", "0">>, <<"s", "v", "c", " ", "#", " ", "7">>, <<"s", "v", "c", " ", "#", "", "7">>,
                               <<"r", "e", "t", " ", "x", "0", "\f">>, <<"É", "C", "O", "L", "E", ":", " ", "n", "o", "p">>, <<"N", "O", "P">>,
                               <<"c", "b", "z", " ", "x", "0", ",", " ", "L">>, <<"t", "b", "z", " ", "x", "0", ",", " ", "#", "3", ",", " ", "L">>, <<"a", "d", "r", " ", "x", "0", ",", " ", "L">>,
                               <<"b", ".", "n", "e", " ", "L">>, <<"L", ":", " ", "b", " ", "L">>}}

\* states a client sets up to call _resolve_relocations directly: a buffer
\* of BufLen words, a label table, and a relocation list with one entry per
\* instruction address (as the second pass produces them)
BufLen == MaxRelocs + 1

ZeroWord == Hex32(0, 0)

OnesWord == Hex32(65535, 65535)

UniformBuffers == {[k \in 1..BufLen |-> w] : w \in {ZeroWord, OnesWord}}

\* L is the third instruction, N is far ahead, M is not defined
ResolverLabels ==
    (<<"L">> :> IAdd(DefaultBase, I(8))) @@ (<<"N">> :> IAdd(DefaultBase, <<18, 13400>>))

\* instruction addresses: every word of the buffer and one past its end
Offsets == {IAdd(DefaultBase, I(4 * k)) : k \in 0..BufLen}

RelTypes ==
    {<<"b">>, <<"b", "l">>, <<"b", "c", "o", "n", "d">>, <<"c", "b">>, <<"c", "b", "z">>, <<"c", "b", "n", "z">>, <<"t", "b">>, <<"t", "b", "z">>, <<"t", "b", "n", "z">>,
     <<"a", "d", "r">>, <<"a", "d", "r", "p">>, <<"x">>}

SingleEntries == {<<o, l, t>> : o \in Offsets, l \in {<<"L">>, <<"N">>, <<"M">>}, t \in RelTypes}

MixedEntries == {<<o, l, t>> : o \in Offsets, l \in {<<"L">>, <<"M">>}, t \in {<<"b">>, <<"a", "d", "r", "p">>}}

DistinctOffsets(rels) ==
    \A i, j \in 1..Len(rels) : i # j => rels[i][1] # rels[j][1]

RelocationLists ==
    {<<e>> : e \in SingleEntries}
    \cup {rels \in UNION {[1..k -> MixedEntries] : k \in 2..MaxRelocs} :
              DistinctOffsets(rels)}
    \cup {<<>>}

SetStateCall(mc, lbls, rels) ==
    [op |-> "set_state", machine_code |-> mc, labels |-> lbls, relocations |-> rels,
     base_address |-> DefaultBase]

SetStateCalls ==
    {SetStateCall(mc, ResolverLabels, rels) : mc \in UniformBuffers, rels \in RelocationLists}

\* entry_point arguments of generate_macho
EntryPoints == {<<"_", "s", "t", "a", "r", "t">>, <<"L">>, <<"n", "o", "p", "e">>}

\* outcomes of a call
Pending == [kind |-> "pending"]

Returned(v) == [kind |-> "return", value |-> v]

Raised(e) == [kind |-> "raise", exc |-> e]

\* what assemble returns: the list object self.machine_code itself
MachineCodeRef == [ref |-> "self.machine_code"]

\* what the client holds of the sequences assemble returned: nothing yet, or
\* the words of the last one as they were when it was returned
NotYet == [valid |-> FALSE]

HandedOut(mc) == [valid |-> TRUE, words |-> mc]

\* no other thread uses the instance
NoThread == [pc |-> "none"]

\* a frame without locals
NoLocals == [none |-> TRUE]

\* the state __init__ leaves
Fresh ==
    /\ labels = <<>>
    /\ relocations = <<>>
    /\ address = I(0)
    /\ machine_code = <<>>

Idle ==
    /\ pc = "idle"
    /\ call = [op |-> "none"]
    /\ lines = <<>>
    /\ lineno = 0
    /\ local = NoLocals
    /\ result = Pending
    /\ stderr = <<>>
    /\ files = Absent

Init ==
    /\ Fresh
    /\ Idle
    /\ returned = NotYet
    /\ suspended = NoThread
    /\ todo \in {<<c>> : c \in AssembleCalls \cup LineCalls \cup EncoderCalls
                                  \cup SetStateCalls}
                \cup RunSequences \cup {<<>>}

(***************************************************************************)
(* The calls, one step per access to the instance.  Between two accesses   *)
(* a call works on its arguments and locals only, so a step runs from one  *)
(* access of self.labels, self.relocations, self.address or                *)
(* self.machine_code to the next; pc names the access the running call     *)
(* makes next and `local` holds the values it has read so far.             *)
(***************************************************************************)
\* where a call stands after a step
At(p, n, loc, res) == [pc |-> p, lineno |-> n, local |-> loc, result |-> res]

Goto(g) ==
    /\ pc' = g.pc
    /\ lineno' = g.lineno
    /\ local' = g.local
    /\ result' = g.result

\* the call c ends with the outcome out
Finish(out, n) ==
    At("idle", n, NoLocals, IF out.ok THEN Returned(out.v) ELSE Raised(out.exc))

\* the first loop from line n on: the next line that stores a label or
\* advances the address, else the reset before the second loop
RECURSIVE Pass1From(_)
Pass1From(n) ==
    IF n > Len(lines) THEN At("BeginPass2", n, NoLocals, Pending)
    ELSE IF Pass1Labelled(lines[n]) THEN At("LoadLabelAddress", n, NoLocals, Pending)
    ELSE IF Pass1Counted(lines[n]) THEN At("LoadAddress", n, NoLocals, Pending)
    ELSE Pass1From(n + 1)

\* assemble_instruction(line) up to the tokenizer: the line without
\* comments, its label prefix, what follows the prefix, and the tokens
WithoutComments(line) == RemoveComments(Strip(line))

Labelled(line) == WithoutComments(line) # <<>> /\ HasLabelPrefix(WithoutComments(line))

LineLabel(line) == Strip(SplitOnce(WithoutComments(line), ":")[1])

Rest(line) ==
    IF Labelled(line) THEN Strip(SplitOnce(WithoutComments(line), ":")[2])
    ELSE WithoutComments(line)

Tokens(line) == SplitWS(Replace(Rest(line), ",", " "))

\* assemble_instruction(line) returns None without an access to the instance
Silent(line) == ~Labelled(line) /\ (Rest(line) = <<>> \/ Tokens(line) = <<>>)

\* the encoder methods with `if label in self.labels`
LabelMethods ==
    {"_encode_adr_adrp", "_encode_b_bl", "_encode_b_cond", "_encode_cbz_cbnz",
     "_encode_tbz_tbnz"}

\* the encoder parses its operands without an exception and reaches the
\* test of its label
ReachesLabel(ins) == ins.name \in LabelMethods /\ Encode(ins, <<>>, I(0)).ok

\* the entry the encoder appends at addr for a label it does not find
RelEntry(ins, addr) == RelOf(Encode(ins, <<>>, addr))[1]

\* the label of the instruction
InsLabel(ins) == RelEntry(ins, I(0))[2]

\* the word of the instruction, target and here being the values of
\* self.labels[label] and self.address it read
WordFor(ins, target, here) == Encode(ins, (InsLabel(ins) :> target), here)

\* what follows the return or the exception of the encoder in the call c:
\* in assemble the word is appended or the error reported, a direct call ends
AfterEncoder(c, out, n) ==
    IF c.op # "assemble" THEN Finish(out, n)
    ELSE IF out.ok THEN At("AppendWord", n, [encoded |-> out.v], Pending)
    ELSE At("ReportError", n, [exc |-> out.exc], Pending)

\* the instruction ins starts in the call c
BeginEncoder(c, ins, n) ==
    IF ReachesLabel(ins) THEN At("TestLabel", n, NoLocals, Pending)
    ELSE AfterEncoder(c, Encode(ins, <<>>, I(0)), n)

\* assemble_instruction(line) starts in the call c, the line not Silent
BeginLine(c, line, n) ==
    IF Labelled(line) THEN At("LoadLineAddress", n, NoLocals, Pending)
    ELSE BeginEncoder(c, InsOfTokens(Tokens(line)), n)

\* the second loop from line n on: the next line with an access to the
\* instance or an instruction, else the resolver
RECURSIVE Pass2From(_)
Pass2From(n) ==
    IF n > Len(lines) THEN At("NextRelocation", n, [i |-> 0], Pending)
    ELSE IF Silent(lines[n]) THEN Pass2From(n + 1)
    ELSE BeginLine(call, lines[n], n)

\* assemble_instruction returned None
AfterNone ==
    IF call.op = "assemble" THEN Pass2From(lineno + 1) ELSE Finish(Ok(None), lineno)

\* the line and the instruction the running call works on
CurLine == IF call.op = "assemble" THEN lines[lineno] ELSE call.line

CurIns ==
    IF call.op = "encoder" THEN [name |-> call.name, mnem |-> call.mnem, ops |-> call.ops]
    ELSE InsOfTokens(Tokens(CurLine))

\* assemble(source, base_address): lines = source.strip().split('\n') and
\* self.address = base_address
CallAssemble ==
    /\ pc = "idle"
    /\ todo # <<>>
    /\ Head(todo).op = "assemble"
    /\ call' = Head(todo)
    /\ todo' = Tail(todo)
    /\ lines' = SplitOn(Strip(Head(todo).source), "\n")
    /\ address' = Head(todo).base_address
    /\ Goto(At("ClearLabels", 0, NoLocals, Pending))
    /\ UNCHANGED <<labels, relocations, machine_code, stderr, files, returned, suspended>>

\* an assemble that starts on the label table the instance holds
ClearLabelsKeepsTable ==
    /\ pc = "ClearLabels"
    /\ pc' = "ClearRelocations"
    /\ UNCHANGED <<labels, relocations, address, machine_code, call, lines, lineno, local,
                   result, stderr, files, todo, returned, suspended>>

\* self.labels.clear()
ClearLabels ==
    /\ pc = "ClearLabels"
    /\ labels' = <<>>
    /\ pc' = "ClearRelocations"
    /\ UNCHANGED <<relocations, address, machine_code, call, lines, lineno, local, result,
                   stderr, files, todo, returned, suspended>>

\* self.relocations.clear(), and the first loop up to its first access
ClearRelocations ==
    /\ pc = "ClearRelocations"
    /\ relocations' = <<>>
    /\ Goto(Pass1From(1))
    /\ UNCHANGED <<labels, address, machine_code, call, lines, stderr, files, todo,
                   returned, suspended>>

\* first loop, self.labels[label] = self.address: the address is read
LoadLabelAddress ==
    /\ pc = "LoadLabelAddress"
    /\ local' = [addr |-> address]
    /\ pc' = "StoreLabel"
    /\ UNCHANGED <<labels, relocations, address, machine_code, call, lines, lineno, result,
                   stderr, files, todo, returned, suspended>>

\* first loop, self.labels[label] = self.address: the label is stored
StoreLabel ==
    /\ pc = "StoreLabel"
    /\ labels' = SetLabel(labels, Pass1Label(lines[lineno]), local.addr)
    /\ Goto(IF Pass1Counted(lines[lineno]) THEN At("LoadAddress", lineno, NoLocals, Pending)
            ELSE Pass1From(lineno + 1))
    /\ UNCHANGED <<relocations, address, machine_code, call, lines, stderr, files, todo,
                   returned, suspended>>

\* first loop, self.address += 4: the address is read
LoadAddress ==
    /\ pc = "LoadAddress"
    /\ local' = [addr |-> address]
    /\ pc' = "StoreAddress"
    /\ UNCHANGED <<labels, relocations, address, machine_code, call, lines, lineno, result,
                   stderr, files, todo, returned, suspended>>

\* first loop, self.address += 4: the sum is written
StoreAddress ==
    /\ pc = "StoreAddress"
    /\ address' = IAdd(local.addr, I(4))
    /\ Goto(Pass1From(lineno + 1))
    /\ UNCHANGED <<labels, relocations, machine_code, call, lines, stderr, files, todo,
                   returned, suspended>>

\* between the loops: self.address = base_address
BeginPass2 ==
    /\ pc = "BeginPass2"
    /\ address' = call.base_address
    /\ pc' = "ClearCode"
    /\ UNCHANGED <<labels, relocations, machine_code, call, lines, lineno, local, result,
                   stderr, files, todo, returned, suspended>>

\* a second pass that starts without clearing machine_code
ClearCodeKeepsBuffer ==
    /\ pc = "ClearCode"
    /\ Goto(Pass2From(1))
    /\ UNCHANGED <<labels, relocations, address, machine_code, call, lines, stderr, files,
                   todo, returned, suspended>>

\* self.machine_code.clear(), and the second loop up to its first access
ClearCode ==
    /\ pc = "ClearCode"
    /\ machine_code' = <<>>
    /\ Goto(Pass2From(1))
    /\ UNCHANGED <<labels, relocations, address, call, lines, stderr, files, todo,
                   returned, suspended>>

\* assemble_instruction, self.labels[label.strip()] = self.address: the
\* address is read
LoadLineAddress ==
    /\ pc = "LoadLineAddress"
    /\ local' = [addr |-> address]
    /\ pc' = "StoreLineLabel"
    /\ UNCHANGED <<labels, relocations, address, machine_code, call, lines, lineno, result,
                   stderr, files, todo, returned, suspended>>

\* assemble_instruction, self.labels[label.strip()] = self.address: the
\* label is stored; the rest of the line is tokenized and dispatched
StoreLineLabel ==
    /\ pc = "StoreLineLabel"
    /\ labels' = SetLabel(labels, LineLabel(CurLine), local.addr)
    /\ Goto(IF Rest(CurLine) = <<>> \/ Tokens(CurLine) = <<>> THEN AfterNone
            ELSE BeginEncoder(call, CurIns, lineno))
    /\ UNCHANGED <<relocations, address, machine_code, call, lines, stderr, files, todo,
                   returned, suspended>>

\* a label-taking encoder: `if label in self.labels`
TestLabel ==
    /\ pc = "TestLabel"
    /\ pc' = IF HasLabel(labels, InsLabel(CurIns)) THEN "LoadTarget" ELSE "LoadRelocAddress"
    /\ UNCHANGED <<labels, relocations, address, machine_code, call, lines, lineno, local,
                   result, stderr, files, todo, returned, suspended>>

\* a label-taking encoder: self.labels[label] is read (KeyError when the
\* label has left the table since the test)
LoadTarget ==
    /\ pc = "LoadTarget"
    /\ Goto(IF HasLabel(labels, InsLabel(CurIns))
            THEN At("LoadHere", lineno, [target |-> labels[InsLabel(CurIns)]], Pending)
            ELSE AfterEncoder(call, Raise("KeyError"), lineno))
    /\ UNCHANGED <<labels, relocations, address, machine_code, call, lines, stderr, files,
                   todo, returned, suspended>>

\* a label-taking encoder: self.address is read, the offset encoded and the
\* word returned
LoadHere ==
    /\ pc = "LoadHere"
    /\ Goto(AfterEncoder(call, WordFor(CurIns, local.target, address), lineno))
    /\ UNCHANGED <<labels, relocations, address, machine_code, call, lines, stderr, files,
                   todo, returned, suspended>>

\* a label-taking encoder, self.relocations.append((self.address, label,
\* type)): the address is read
LoadRelocAddress ==
    /\ pc = "LoadRelocAddress"
    /\ local' = [addr |-> address]
    /\ pc' = "AppendRelocation"
    /\ UNCHANGED <<labels, relocations, address, machine_code, call, lines, lineno, result,
                   stderr, files, todo, returned, suspended>>

\* a label-taking encoder: the entry is appended and the word with the
\* placeholder offset 0 returned
AppendRelocation ==
    /\ pc = "AppendRelocation"
    /\ relocations' = Append(relocations, RelEntry(CurIns, local.addr))
    /\ Goto(AfterEncoder(call, Encode(CurIns, <<>>, local.addr), lineno))
    /\ UNCHANGED <<labels, address, machine_code, call, lines, stderr, files, todo,
                   returned, suspended>>

\* second loop: self.machine_code.append(encoded)
AppendWord ==
    /\ pc = "AppendWord"
    /\ machine_code' = Append(machine_code, local.encoded)
    /\ Goto(At("LoadAdvance", lineno, NoLocals, Pending))
    /\ UNCHANGED <<labels, relocations, address, call, lines, stderr, files, todo,
                   returned, suspended>>

\* second loop, self.address += 4: the address is read
LoadAdvance ==
    /\ pc = "LoadAdvance"
    /\ local' = [addr |-> address]
    /\ pc' = "StoreAdvance"
    /\ UNCHANGED <<labels, relocations, address, machine_code, call, lines, lineno, result,
                   stderr, files, todo, returned, suspended>>

\* a second loop that writes the address back as it read it
StoreAdvanceNoAdvance ==
    /\ pc = "StoreAdvance"
    /\ address' = local.addr
    /\ Goto(Pass2From(lineno + 1))
    /\ UNCHANGED <<labels, relocations, machine_code, call, lines, stderr, files, todo,
                   returned, suspended>>

\* second loop, self.address += 4: the sum is written; the loop goes on to
\* the next access
StoreAdvance ==
    /\ pc = "StoreAdvance"
    /\ address' = IAdd(local.addr, I(4))
    /\ Goto(Pass2From(lineno + 1))
    /\ UNCHANGED <<labels, relocations, machine_code, call, lines, stderr, files, todo,
                   returned, suspended>>

\* second loop, the except clause: the exception is reported on stderr and
\* raised again, out of assemble
ReportError ==
    /\ pc = "ReportError"
    /\ stderr' = Append(stderr, [kind |-> "error", line |-> lineno, exc |-> local.exc])
    /\ Goto(Finish(Raise(local.exc), lineno))
    /\ UNCHANGED <<labels, relocations, address, machine_code, call, lines, files, todo,
                   returned, suspended>>

\* idx = (offset - base_address) // 4 of the entry the resolver works on
EntryIndex(entry, base_address) == ToInt(IFloorDiv(ISub(entry[1], base_address), 4))

\* the 1-based position self.machine_code[idx] denotes in a list of n words
\* (a negative idx counts from the end), and whether there is such a word
Position(idx, n) == IF idx >= 0 THEN idx + 1 ELSE n + idx + 1

InRange(idx, n) == Position(idx, n) >= 1 /\ Position(idx, n) <= n

\* _resolve_relocations, `for offset, label, rel_type in self.relocations`:
\* the next entry of the list as it stands, else the loop ends and assemble
\* goes on to its return
NextRelocation ==
    /\ pc = "NextRelocation"
    /\ Goto(IF local.i < Len(relocations)
            THEN At("TestRelocationLabel", lineno,
                    [i |-> local.i + 1, entry |-> relocations[local.i + 1]], Pending)
            ELSE IF call.op = "assemble" THEN At("Return", lineno, NoLocals, Pending)
            ELSE Finish(Ok(None), lineno))
    /\ UNCHANGED <<labels, relocations, address, machine_code, call, lines, stderr, files,
                   todo, returned, suspended>>

\* _resolve_relocations: `if label not in self.labels`
TestRelocationLabel ==
    /\ pc = "TestRelocationLabel"
    /\ pc' = IF HasLabel(labels, local.entry[2]) THEN "CodeLength" ELSE "Warn"
    /\ UNCHANGED <<labels, relocations, address, machine_code, call, lines, lineno, local,
                   result, stderr, files, todo, returned, suspended>>

\* _resolve_relocations: the warning is printed and the entry left alone
Warn ==
    /\ pc = "Warn"
    /\ stderr' = Append(stderr, [kind |-> "warning", label |-> local.entry[2]])
    /\ pc' = "NextRelocation"
    /\ UNCHANGED <<labels, relocations, address, machine_code, call, lines, lineno, local,
                   result, files, todo, returned, suspended>>

\* _resolve_relocations: `if idx >= len(self.machine_code)`
CodeLength ==
    /\ pc = "CodeLength"
    /\ pc' = IF EntryIndex(local.entry, call.base_address) >= Len(machine_code)
             THEN "NextRelocation" ELSE "LoadWord"
    /\ UNCHANGED <<labels, relocations, address, machine_code, call, lines, lineno, local,
                   result, stderr, files, todo, returned, suspended>>

\* _resolve_relocations: instr = self.machine_code[idx] (IndexError when
\* there is no such word)
LoadWord ==
    /\ pc = "LoadWord"
    /\ Goto(IF InRange(EntryIndex(local.entry, call.base_address), Len(machine_code))
            THEN At("LoadRelocationTarget", lineno,
                    [i |-> local.i, entry |-> local.entry,
                     instr |-> machine_code[Position(EntryIndex(local.entry,
                                                                 call.base_address),
                                                      Len(machine_code))]],
                    Pending)
            ELSE Finish(Raise("IndexError"), lineno))
    /\ UNCHANGED <<labels, relocations, address, machine_code, call, lines, stderr, files,
                   todo, returned, suspended>>

\* _resolve_relocations: target = self.labels[label] (KeyError when the
\* label has left the table since the test)
LoadRelocationTarget ==
    /\ pc = "LoadRelocationTarget"
    /\ Goto(IF HasLabel(labels, local.entry[2])
            THEN At("StoreWord", lineno,
                    [i |-> local.i, entry |-> local.entry,
                     instr |-> Patch(local.instr, local.entry[1], labels[local.entry[2]],
                                     local.entry[3])],
                    Pending)
            ELSE Finish(Raise("KeyError"), lineno))
    /\ UNCHANGED <<labels, relocations, address, machine_code, call, lines, stderr, files,
                   todo, returned, suspended>>

\* _resolve_relocations: self.machine_code[idx] = instr (IndexError when
\* there is no such word any more)
StoreWord ==
    /\ pc = "StoreWord"
    /\ IF InRange(EntryIndex(local.entry, call.base_address), Len(machine_code))
       THEN /\ machine_code' =
                   [machine_code EXCEPT ![Position(EntryIndex(local.entry,
                                                              call.base_address),
                                                   Len(machine_code))] = local.instr]
            /\ Goto(At("NextRelocation", lineno, [i |-> local.i], Pending))
       ELSE /\ machine_code' = machine_code
            /\ Goto(Finish(Raise("IndexError"), lineno))
    /\ UNCHANGED <<labels, relocations, address, call, lines, stderr, files, todo,
                   returned, suspended>>

\* assemble: return self.machine_code
Return ==
    /\ pc = "Return"
    /\ Goto(Finish(Ok(MachineCodeRef), lineno))
    /\ returned' = HandedOut(machine_code)
    /\ UNCHANGED <<labels, relocations, address, machine_code, call, lines, stderr, files,
                   todo, suspended>>

\* a direct call of assemble_instruction(line), up to its first access to
\* the instance
CallAssembleInstruction ==
    /\ pc = "idle"
    /\ todo # <<>>
    /\ Head(todo).op = "assemble_instruction"
    /\ call' = Head(todo)
    /\ todo' = Tail(todo)
    /\ Goto(IF Silent(Head(todo).line) THEN Finish(Ok(None), lineno)
            ELSE BeginLine(Head(todo), Head(todo).line, lineno))
    /\ UNCHANGED <<labels, relocations, address, machine_code, lines, stderr, files,
                   returned, suspended>>

\* a direct call of an encoder method, up to its first access to the instance
CallEncoder ==
    /\ pc = "idle"
    /\ todo # <<>>
    /\ Head(todo).op = "encoder"
    /\ call' = Head(todo)
    /\ todo' = Tail(todo)
    /\ Goto(BeginEncoder(Head(todo), [name |-> Head(todo).name, mnem |-> Head(todo).mnem,
                                      ops |-> Head(todo).ops], lineno))
    /\ UNCHANGED <<labels, relocations, address, machine_code, lines, stderr, files,
                   returned, suspended>>

\* the client assigns machine_code, labels and relocations of the instance
CallSetState ==
    /\ pc = "idle"
    /\ todo # <<>>
    /\ Head(todo).op = "set_state"
    /\ call' = Head(todo)
    /\ todo' = Tail(todo)
    /\ machine_code' = Head(todo).machine_code
    /\ labels' = Head(todo).labels
    /\ relocations' = Head(todo).relocations
    /\ result' = Returned(None)
    /\ UNCHANGED <<address, pc, lines, lineno, local, stderr, files, returned, suspended>>

\* how many runs of _resolve_relocations the instance has had when the call
\* c is over, since its state was built: a returned assemble ends with one
ResolveCount(c) ==
    IF c.op = "_resolve_relocations" THEN c.nth
    ELSE IF c.op = "assemble" THEN 1
    ELSE 0

\* a direct call of _resolve_relocations(base_address) on the instance as a
\* returned assemble, the client's assignments or an earlier such call left
\* it, with the base address of that run
CallResolveRelocations ==
    /\ pc = "idle"
    /\ \/ call.op = "set_state"
       \/ call.op = "assemble" /\ result.kind = "return"
       \/ call.op = "_resolve_relocations"
    /\ ResolveCount(call) < MaxResolves
    /\ call' = [op |-> "_resolve_relocations", base_address |-> call.base_address,
                nth |-> ResolveCount(call) + 1]
    /\ Goto(At("NextRelocation", lineno, [i |-> 0], Pending))
    /\ UNCHANGED <<labels, relocations, address, machine_code, lines, stderr, files, todo,
                   returned, suspended>>

\* the locals of generate_macho: text_size, entry_addr, the bytes written to
\* the file object and not yet in the file, the part of the file they
\* belong to, the number of code words read and the exception on its way
\* ("" when there is none)
Macho(text_size, entry_addr, pending, part, i, exc) ==
    [text_size |-> text_size, entry_addr |-> entry_addr, pending |-> pending,
     part |-> part, i |-> i, exc |-> exc]

\* what the client knows of the call before this one: for an assemble its
\* base address and whether it returned
Previous ==
    IF call.op = "assemble"
    THEN [op |-> "assemble", returned |-> result.kind = "return",
          base_address |-> call.base_address]
    ELSE [op |-> call.op]

\* a generate_macho that opens (and so truncates) the output file before it
\* looks the entry point up
CallGenerateMachoOpensFirst ==
    /\ pc = "idle"
    /\ \E e \in EntryPoints :
          /\ call' = [op |-> "generate_macho", entry_point |-> e, before |-> files,
                      previous |-> Previous]
          /\ files' = IF HasLabel(labels, e) THEN files ELSE Opened
          /\ Goto(IF HasLabel(labels, e) THEN At("MachoSize", lineno, NoLocals, Pending)
                  ELSE Finish(Raise("ValueError"), lineno))
    /\ UNCHANGED <<labels, relocations, address, machine_code, lines, stderr, todo,
                   returned, suspended>>

\* generate_macho(output_file, entry_point) on the instance as it stands:
\* `if entry_point not in self.labels`.  The call record keeps the file as
\* the call found it and the call made before.
CallGenerateMacho ==
    /\ pc = "idle"
    /\ \E e \in EntryPoints :
          /\ call' = [op |-> "generate_macho", entry_point |-> e, before |-> files,
                      previous |-> Previous]
          /\ Goto(IF HasLabel(labels, e) THEN At("MachoSize", lineno, NoLocals, Pending)
                  ELSE Finish(Raise("ValueError"), lineno))
    /\ UNCHANGED <<labels, relocations, address, machine_code, lines, stderr, files, todo,
                   returned, suspended>>

\* generate_macho: text_size = len(self.machine_code) * 4
MachoSize ==
    /\ pc = "MachoSize"
    /\ local' = Macho(Len(machine_code) * 4, None, <<>>, "head", 0, "")
    /\ pc' = "MachoEntry"
    /\ UNCHANGED <<labels, relocations, address, machine_code, call, lines, lineno, result,
                   stderr, files, todo, returned, suspended>>

\* generate_macho: entry_addr = self.labels[entry_point]
MachoEntry ==
    /\ pc = "MachoEntry"
    /\ Goto(IF HasLabel(labels, call.entry_point)
            THEN At("MachoOpen", lineno,
                    [local EXCEPT !.entry_addr = labels[call.entry_point]], Pending)
            ELSE Finish(Raise("KeyError"), lineno))
    /\ UNCHANGED <<labels, relocations, address, machine_code, call, lines, stderr, files,
                   todo, returned, suspended>>

\* generate_macho: open(output_file, 'wb'); the header and the load commands
\* are written to the file object, up to the seek that follows them or to
\* the struct.error of an entry offset that does not fit 64 bits
MachoOpen ==
    /\ pc = "MachoOpen"
    /\ files' = Opened
    /\ Goto(IF EntryOff(local.entry_addr).ok
            THEN At("MachoSeekHeader", lineno,
                    [local EXCEPT !.pending =
                        MachHeader(0) \o Commands(local.text_size, local.entry_addr)],
                    Pending)
            ELSE At("MachoClose", lineno,
                    [local EXCEPT !.pending = BeforeEntry(local.text_size),
                                  !.exc = "struct.error"],
                    Pending))
    /\ UNCHANGED <<labels, relocations, address, machine_code, call, lines, stderr, todo,
                   returned, suspended>>

\* generate_macho: f.seek(header_size - 12) puts the bytes written so far
\* into the file; sizeofcmds is then written to the file object
MachoSeekHeader ==
    /\ pc = "MachoSeekHeader"
    /\ files' = [files EXCEPT !.head = local.pending]
    /\ local' = [local EXCEPT !.pending = <<>>]
    /\ pc' = "MachoSeekText"
    /\ UNCHANGED <<labels, relocations, address, machine_code, call, lines, lineno, result,
                   stderr, todo, returned, suspended>>

\* generate_macho: f.seek(text_fileoff) puts sizeofcmds into the header
MachoSeekText ==
    /\ pc = "MachoSeekText"
    /\ files' = [files EXCEPT !.head =
                    MachHeader(Len(Commands(local.text_size, local.entry_addr)))
                    \o Commands(local.text_size, local.entry_addr)]
    /\ local' = [local EXCEPT !.part = "code"]
    /\ pc' = "MachoNextWord"
    /\ UNCHANGED <<labels, relocations, address, machine_code, call, lines, lineno, result,
                   stderr, todo, returned, suspended>>

\* generate_macho, `for instr in self.machine_code`: the next word of the
\* buffer as it stands is packed and written to the file object; the loop
\* ends with the buffer or with the struct.error of a word that does not
\* fit 32 bits
MachoNextWord ==
    /\ pc = "MachoNextWord"
    /\ Goto(IF local.i >= Len(machine_code) THEN At("MachoClose", lineno, local, Pending)
            ELSE IF PackI(machine_code[local.i + 1]).ok
            THEN At("MachoNextWord", lineno,
                    [local EXCEPT !.i = local.i + 1,
                                  !.pending = local.pending
                                              \o PackI(machine_code[local.i + 1]).v],
                    Pending)
            ELSE At("MachoClose", lineno, [local EXCEPT !.exc = "struct.error"], Pending))
    /\ UNCHANGED <<labels, relocations, address, machine_code, call, lines, stderr, files,
                   todo, returned, suspended>>

\* generate_macho, the end of `with open(...) as f`: the file is closed,
\* what was written to the file object reaches the file, and the call
\* returns or the exception goes on
MachoClose ==
    /\ pc = "MachoClose"
    /\ files' = IF local.part = "head" THEN [files EXCEPT !.head = local.pending]
                ELSE [files EXCEPT !.code = local.pending]
    /\ Goto(Finish(IF local.exc = "" THEN Ok(None) ELSE Raise(local.exc), lineno))
    /\ UNCHANGED <<labels, relocations, address, machine_code, call, lines, stderr, todo,
                   returned, suspended>>

\* the steps of generate_macho
MachoStep ==
    \/ CallGenerateMacho
    \/ MachoSize
    \/ MachoEntry
    \/ MachoOpen
    \/ MachoSeekHeader
    \/ MachoSeekText
    \/ MachoNextWord
    \/ MachoClose

\* the steps of assemble
AssembleStep ==
    \/ CallAssemble
    \/ ClearLabels
    \/ ClearRelocations
    \/ LoadLabelAddress
    \/ StoreLabel
    \/ LoadAddress
    \/ StoreAddress
    \/ BeginPass2
    \/ ClearCode
    \/ LoadLineAddress
    \/ StoreLineLabel
    \/ TestLabel
    \/ LoadTarget
    \/ LoadHere
    \/ LoadRelocAddress
    \/ AppendRelocation
    \/ AppendWord
    \/ LoadAdvance
    \/ StoreAdvance
    \/ ReportError
    \/ NextRelocation
    \/ TestRelocationLabel
    \/ Warn
    \/ CodeLength
    \/ LoadWord
    \/ LoadRelocationTarget
    \/ StoreWord
    \/ Return

Next ==
    \/ AssembleStep
    \/ MachoStep
    \/ CallAssembleInstruction
    \/ CallEncoder
    \/ CallSetState
    \/ CallResolveRelocations

Spec == Init /\ [][Next]_vars

(***************************************************************************)
(* Two threads that call assemble on one instance.  The variables pc,      *)
(* call, lines, lineno, local, result and todo are the frame of the thread *)
(* that runs; `suspended` holds the frame of the other one.  The instance  *)
(* (labels, relocations, address, machine_code) is shared.  A thread can   *)
(* be preempted between any two accesses to the instance.                  *)
(*                                                                         *)
(* Next to the frame, `suspended` keeps what has happened between the two  *)
(* calls: `was` is how the thread that runs stood when it last got the     *)
(* processor, `overlap` whether the two calls have been inside assemble at *)
(* the same time.                                                          *)
(***************************************************************************)
Frame(p, c, ls, n, loc, r, t, was, overlap) ==
    [pc |-> p, call |-> c, lines |-> ls, lineno |-> n, local |-> loc, result |-> r,
     todo |-> t, was |-> was, overlap |-> overlap]

\* a thread has not called assemble yet, is inside it, or is back from it
Status(p, t) ==
    IF p # "idle" THEN "running" ELSE IF t # <<>> THEN "waiting" ELSE "done"

\* at a preemption: both threads are inside assemble, or the thread that
\* stops has made its whole call while the other one was inside its own
OverlapAtSwitch ==
    /\ suspended.pc # "idle"
    /\ \/ pc # "idle"
       \/ suspended.was = "waiting" /\ Status(pc, todo) = "done"

\* the sources the two threads assemble
ThreadSources == {<<"L", ":", "\n", "n", "o", "p", "\n", "b", " ", "L">>, <<"n", "o", "p", "\n", "n", "o", "p", "\n", "M", ":", "\n", "b", " ", "M">>, <<"b", " ", "M">>, <<"r", "e", "t">>}

\* a thread that has not called assemble(s) yet
Waiting(s) ==
    Frame("idle", [op |-> "none"], <<>>, 0, NoLocals, Pending, <<AssembleCall(s)>>,
          "waiting", FALSE)

InitThreads ==
    /\ Fresh
    /\ Idle
    /\ returned = NotYet
    /\ todo \in {<<AssembleCall(s)>> : s \in ThreadSources}
    /\ suspended \in {Waiting(s) : s \in ThreadSources}

\* the running thread is preempted and the other one continues
Switch ==
    /\ suspended # NoThread
    /\ suspended' = Frame(pc, call, lines, lineno, local, result, todo,
                          Status(suspended.pc, suspended.todo),
                          suspended.overlap \/ OverlapAtSwitch)
    /\ pc' = suspended.pc
    /\ call' = suspended.call
    /\ lines' = suspended.lines
    /\ lineno' = suspended.lineno
    /\ local' = suspended.local
    /\ result' = suspended.result
    /\ todo' = suspended.todo
    /\ UNCHANGED <<labels, relocations, address, machine_code, stderr, files, returned>>

NextThreads ==
    \/ AssembleStep
    \/ Switch

SpecThreads == InitThreads /\ [][NextThreads]_vars

(***************************************************************************)
(* Properties.  The source grammar below is the reading of a source that   *)
(* the specification gives: a line is an optional `label:` prefix, an      *)
(* optional instruction and an optional trailing comment introduced by     *)
(* ';', '//' or '#'.  Word indices are 0-based positions in machine_code.  *)
(***************************************************************************)
\* positions of t at which a comment marker starts
CommentStarts(t) ==
    {k \in 1..Len(t) : \/ t[k] \in {";", "#"}
                       \/ (t[k] = "/" /\ k < Len(t) /\ t[k + 1] = "/")}

SetMin(S) == CHOOSE x \in S : \A y \in S : x <= y

CutAtFirst(t, starts) ==
    IF starts = {} THEN t ELSE Strip(SubSeq(t, 1, SetMin(starts) - 1))

\* the line without surrounding blanks and without its trailing comment
Uncommented(l) == CutAtFirst(Strip(l), CommentStarts(Strip(l)))

LabelPart(u) == IF Contains(u, <<":">>) THEN Strip(SplitOnce(u, ":")[1]) ELSE <<>>

InstrPart(u) == IF Contains(u, <<":">>) THEN Strip(SplitOnce(u, ":")[2]) ELSE u

\* the label a line defines (empty text when none) and its instruction tokens
SrcLabel(l) == LabelPart(Uncommented(l))

SrcTokens(l) == SplitWS(InstrPart(Uncommented(l)))

IsInstrLine(l) == SrcTokens(l) # <<>>

IsDirectiveLine(l) == StartsWith(Strip(l), <<".">>)

BranchTokens(toks) ==
    /\ Len(toks) = 2
    /\ (Lower(toks[1]) \in {<<"b">>, <<"b", "l">>} \/ StartsWith(Lower(toks[1]), <<"b", ".">>))

\* nothing, or one of b / bl / b.cond label, nop, ret, ret xN
PlainTokens(toks) ==
    \/ toks = <<>>
    \/ BranchTokens(toks)
    \/ Lower(toks[1]) = <<"n", "o", "p">> /\ Len(toks) = 1
    \/ Lower(toks[1]) = <<"r", "e", "t">> /\ Len(toks) = 1
    \/ Lower(toks[1]) = <<"r", "e", "t">> /\ Len(toks) = 2
       /\ Lower(toks[2]) \in {<<"x">> \o Dec(n) : n \in 0..30}

IsBranchLine(l) == BranchTokens(SrcTokens(l))

BranchTarget(l) == SrcTokens(l)[2]

\* every line is a label definition, blank, a comment or a plain instruction
PlainSource(ls) == \A k \in 1..Len(ls) : PlainTokens(SrcTokens(ls[k]))

\* index of the word of line i, which is also the index of the first word
\* emitted at or after line i
WordIndex(ls, i) == Cardinality({k \in 1..(i - 1) : IsInstrLine(ls[k])})

InstrCount(ls) == WordIndex(ls, Len(ls) + 1)

DefLines(ls, name) == {k \in 1..Len(ls) : SrcLabel(ls[k]) = name}

\* the only line defining the label, for a label defined exactly once and
\* followed by at least one instruction
TargetLine(ls, name) == CHOOSE k \in DefLines(ls, name) : TRUE

Resolvable(ls, name) ==
    /\ Cardinality(DefLines(ls, name)) = 1
    /\ WordIndex(ls, TargetLine(ls, name)) < InstrCount(ls)

\* a field value read as a two's-complement number of the given width
Signed(f, width) == IF f >= Pow2(width - 1) THEN f - Pow2(width) ELSE f

\* the offset field of the branch word w of the branch line l
OffsetField(l, w) ==
    IF StartsWith(Lower(SrcTokens(l)[1]), <<"b", ".">>) THEN Signed(ToInt(Field(w, 23, 5)), 19)
    ELSE Signed(ToInt(Field(w, 25, 0)), 26)

\* the assemble call has finished on a source of the plain grammar
AssembleDone == pc = "idle" /\ call.op = "assemble" /\ result.kind # "pending"

AssembledPlain == AssembleDone /\ result.kind = "return" /\ PlainSource(lines)

\* the offset the branch of line i should hold
ExpectedOffset(ls, i) ==
    WordIndex(ls, TargetLine(ls, BranchTarget(ls[i]))) - WordIndex(ls, i)

BranchHolds(ls, mc, i, d) ==
    /\ WordIndex(ls, i) < Len(mc)
    /\ OffsetField(ls[i], mc[WordIndex(ls, i) + 1]) = d

ResolvedBranches(ls) ==
    {i \in 1..Len(ls) : IsBranchLine(ls[i]) /\ Resolvable(ls, BranchTarget(ls[i]))}

\* C1: after a successful assemble of a source made of label definitions,
\* blank lines, comment-only lines and b / bl / b.cond / nop / ret, every
\* branch to a label defined in the source holds in its offset field the
\* index of the first word at or after the label minus the index of its own
\* word.
C1_BranchOffsetIsWordDistance ==
    AssembledPlain =>
        \A i \in ResolvedBranches(lines) :
            BranchHolds(lines, machine_code, i, ExpectedOffset(lines, i))

\* C2: assembling '_start:' / 'mov x0, #42' / 'mov x16, #1' / 'svc #0x80'
\* at base 0x100000000 returns exactly 3 words, the first being 0xD2800540.
C2_ScenarioThreeWords ==
    (AssembleDone /\ call.source = ScenarioSource /\ call.base_address = DefaultBase) =>
        /\ result.kind = "return"
        /\ Len(machine_code) = 3
        /\ machine_code[1] = Hex32(53888, 1344)

UndefinedBranches(ls) ==
    {i \in 1..Len(ls) : IsBranchLine(ls[i]) /\ DefLines(ls, BranchTarget(ls[i])) = {}}

Warned(label) == \E k \in 1..Len(stderr) : stderr[k] = [kind |-> "warning", label |-> label]

\* C3: for a source (of the plain grammar) with a branch to a label defined
\* nowhere, assemble does not raise: it warns about the label, returns one
\* word per instruction, and the branch word's offset field is zero.
C3_UndefinedLabelFailsSoft ==
    (AssembleDone /\ PlainSource(lines) /\ UndefinedBranches(lines) # {}) =>
        /\ result = Returned(MachineCodeRef)
        /\ Len(machine_code) = InstrCount(lines)
        /\ \A i \in UndefinedBranches(lines) :
              /\ Warned(BranchTarget(lines[i]))
              /\ BranchHolds(lines, machine_code, i, 0)

\* C3 witness: assemble returned on a source with a backward-placed branch
\* to an undefined label next to a resolved one, and the warning is there.
C3_Witness ==
    /\ AssembleDone /\ PlainSource(lines)
    /\ UndefinedBranches(lines) # {} /\ ResolvedBranches(lines) # {}
    /\ result.kind = "return"
    /\ \E i \in UndefinedBranches(lines) : i > 1 /\ Warned(BranchTarget(lines[i]))

\* C4: generate_macho with an entry point missing from the label table
\* raises and leaves the output file as it was (absent or unchanged).
C4_MissingEntryLeavesFile ==
    [][(pc = "idle" /\ call'.op = "generate_macho"
        /\ call'.entry_point \notin DOMAIN labels)
       => (pc' = "idle" /\ result' = Raised("ValueError") /\ files' = files)]_vars

\* C4 witness: the call raised for a missing entry point while a file
\* written by an earlier call exists.
C4_Witness ==
    /\ pc = "idle" /\ call.op = "generate_macho"
    /\ call.entry_point \notin DOMAIN labels
    /\ result = Raised("ValueError")
    /\ files.exists

\* C5: the line 'ret' assembles to 0xD65F03C0 (Rn = 30) and 'ret xN', for
\* N in 0..30, to 0xD65F0000 | N << 5.
C5_RetEncoding ==
    (pc = "idle" /\ call.op = "assemble_instruction") =>
        /\ call.line = <<"r", "e", "t">> => result = Returned(Hex32(54879, 960))
        /\ \A n \in 0..30 :
              call.line = RetLine(n) => result = Returned(IOr(Hex32(54879, 0), Sh(n, 5)))

\* C5 witness: 'ret' without operand was assembled to the word with Rn = 30.
C5_Witness ==
    /\ pc = "idle" /\ call = LineCall(<<"r", "e", "t">>)
    /\ result.kind = "return" /\ Field(result.value, 9, 5) = I(30)

\* C7: a branch d >= 1 instructions before its label and a branch d
\* instructions after its label hold +d and -d in their offset fields.
C7_ForwardBackwardSymmetry ==
    AssembledPlain =>
        \A i, j \in ResolvedBranches(lines) :
            (ExpectedOffset(lines, i) >= 1
             /\ ExpectedOffset(lines, j) = -ExpectedOffset(lines, i)) =>
                /\ BranchHolds(lines, machine_code, i, ExpectedOffset(lines, i))
                /\ BranchHolds(lines, machine_code, j, -ExpectedOffset(lines, i))

\* direct encoder calls whose immediate is outside the field's legal range
OutOfRangeCalls ==
    {AddSubImmCall(m, rd, rn, n) : m \in {<<"a", "d", "d">>, <<"s", "u", "b">>, <<"a", "d", "d", "s">>, <<"s", "u", "b", "s">>},
                                   rd \in RegSample, rn \in RegSample, n \in Out12}
    \cup {MovWideCall(m, rd, n) : m \in {<<"m", "o", "v", "z">>, <<"m", "o", "v", "n">>, <<"m", "o", "v", "k">>}, rd \in RegSample,
                                  n \in Out16}
    \cup {CmpCall(rn, n) : rn \in RegSample, n \in Out12}
    \cup {SvcCall(n) : n \in Out16}
    \cup {BrkCall(n) : n \in Out16}
    \cup {LdpStpCall(m, n) : m \in {<<"l", "d", "p">>, <<"s", "t", "p">>}, n \in OutPair}
    \cup {LdrStrCall(m, n) : m \in {<<"l", "d", "r">>, <<"s", "t", "r">>}, n \in OutMem}
    \cup {TbCall(m, n) : m \in {<<"t", "b", "z">>, <<"t", "b", "n", "z">>}, n \in OutBit}

\* C8: every encoder placing an immediate in a fixed-width field raises
\* when the immediate is outside the field's legal range.
C8_OutOfRangeRaises ==
    (pc = "idle" /\ call \in OutOfRangeCalls) => result.kind = "raise"

\* w with bits [hi_bit : lo_bit] cleared
ClearField(w, hi_bit, lo_bit) == ISub(w, IShl(Field(w, hi_bit, lo_bit), lo_bit))

\* is the operand text an immediate in 0..max
LegalImm(text, max) ==
    /\ parse_imm(text).ok
    /\ IGe(Imm(parse_imm(text)), I(0))
    /\ ~ILt(I(max), Imm(parse_imm(text)))

RoundTrips(res, hi_bit, lo_bit, imm, zero_word) ==
    /\ res.kind = "return"
    /\ Field(res.value, hi_bit, lo_bit) = imm
    /\ ClearField(res.value, hi_bit, lo_bit) = zero_word.v

\* C9: for an immediate in the legal range the field extracted from the
\* word is the immediate (bits [21:10] for _encode_add_sub_imm and 0..4095,
\* bits [20:5] for _encode_movz_movn_movk and 0..65535), and the rest of
\* the word is the word of the same operands with immediate 0.
C9_ImmediateRoundTrip ==
    /\ (pc = "idle" /\ call.op = "encoder" /\ call.name = "_encode_add_sub_imm"
        /\ Len(call.ops) = 3 /\ LegalImm(call.ops[3], 4095)) =>
           RoundTrips(result, 21, 10, Imm(parse_imm(call.ops[3])),
                      encode_add_sub_imm(call.mnem, <<call.ops[1], call.ops[2], <<"#", "0">>>>))
    /\ (pc = "idle" /\ call.op = "encoder" /\ call.name = "_encode_movz_movn_movk"
        /\ LegalImm(call.ops[2], 65535)) =>
           RoundTrips(result, 20, 5, Imm(parse_imm(call.ops[2])),
                      encode_movz_movn_movk(call.mnem, <<call.ops[1], <<"#", "0">>>>))

\* C9 witness: ADD with the largest 12-bit immediate and a 32-bit
\* destination returned a word.
C9_Witness ==
    /\ pc = "idle" /\ call = AddSubImmCall(<<"a", "d", "d">>, <<"w", "5">>, <<"s", "p">>, 4095)
    /\ result.kind = "return" /\ Field(result.value, 21, 10) = I(4095)

DirectiveLines(ls) == {k \in 1..Len(ls) : IsDirectiveLine(ls[k])}

\* the lines of ls that are not directives, in order
RECURSIVE WithoutDirectives(_)
WithoutDirectives(ls) ==
    IF ls = <<>> THEN <<>>
    ELSE IF IsDirectiveLine(Head(ls)) THEN WithoutDirectives(Tail(ls))
    ELSE <<Head(ls)>> \o WithoutDirectives(Tail(ls))

\* C10: a directive line is skipped by the whole run: the run does not
\* raise because of it, it emits no word and does not advance the address.
C10_DirectiveSkipped ==
    (AssembleDone /\ DirectiveLines(lines) # {} /\ PlainSource(WithoutDirectives(lines))) =>
        /\ result.kind = "return"
        /\ Len(machine_code) = InstrCount(WithoutDirectives(lines))
        /\ address = IAdd(call.base_address, I(4 * InstrCount(WithoutDirectives(lines))))

\* C11: when pass 2 fails on a line, assemble raises, relocation resolution
\* is not run (no warning follows the error message) and the words encoded
\* before the failing line are not left in the machine-code buffer.
C11_NoPartialBuffer ==
    [][(pc = "ReportError" /\ pc' = "idle" /\ result'.kind = "raise") =>
          /\ Len(stderr') = Len(stderr) + 1
          /\ stderr'[Len(stderr')].kind = "error"
          /\ machine_code' = <<>>]_vars

\* the 8 bytes of a non-negative integer below 2^32, little-endian
LittleEndian8(v) ==
    <<v[2] % 256, v[2] \div 256, v[1] % 256, v[1] \div 256, 0, 0, 0, 0>>

\* the entryoff field of LC_MAIN: bytes 264..271 of the file
EntryOffBytes(f) == SubSeq(f.head, 265, 272)

\* the label is defined once, before any instruction of the source
PrecedesFirstInstruction(ls, name) ==
    /\ Cardinality(DefLines(ls, name)) = 1
    /\ WordIndex(ls, TargetLine(ls, name)) = 0
    /\ IsInstrLine(ls[TargetLine(ls, name)]) \/ InstrCount(ls) > 0

\* a generate_macho call is over
MachoOver == pc = "idle" /\ call.op = "generate_macho"

\* the call before it was an assemble that returned
AfterReturnedAssemble == call.previous.op = "assemble" /\ call.previous.returned

\* C12: after a successful assemble at base 0x100000000, generate_macho
\* with a defined entry label writes a file starting CF FA ED FE whose
\* entry-offset field is (entry label address - 0x100000000), which is 0
\* when the entry label precedes the first instruction.  (The call can
\* still raise afterwards, while it writes a code word that does not fit
\* 32 bits; the header and the load commands are in the file by then.)
C12_MagicAndEntryOffset ==
    (MachoOver /\ AfterReturnedAssemble /\ call.previous.base_address = DefaultBase
     /\ call.entry_point \in DOMAIN labels) =>
        /\ files.exists
        /\ SubSeq(files.head, 1, 4) = <<207, 250, 237, 254>>
        /\ EntryOffBytes(files) = LittleEndian8(ISub(labels[call.entry_point], DefaultBase))
        /\ PrecedesFirstInstruction(lines, call.entry_point) =>
               EntryOffBytes(files) = <<0, 0, 0, 0, 0, 0, 0, 0>>

\* C12 witness: a file was written for an entry label one instruction into
\* the code.
C12_Witness ==
    /\ MachoOver /\ result = Returned(None)
    /\ AfterReturnedAssemble /\ call.previous.base_address = DefaultBase
    /\ machine_code # <<>> /\ call.entry_point \in DOMAIN labels
    /\ labels[call.entry_point] = IAdd(DefaultBase, I(4))
    /\ files.exists /\ EntryOffBytes(files) = <<4, 0, 0, 0, 0, 0, 0, 0>>

\* C13: for N in 0..65535 the lines 'svc #N' and 'svc N' (and 'brk #N',
\* 'brk N') assemble to the same word, whose bits [20:5] equal N.
C13_HashPrefixOptional ==
    (pc = "idle" /\ call.op = "assemble_instruction") =>
        \A n \in In16 : \A p \in {<<"#">>, <<>>} :
            /\ call.line = TrapLine(<<"s", "v", "c">>, p, n) =>
                   result = Returned(IOr(Hex32(54272, 1), Sh(n, 5)))
            /\ call.line = TrapLine(<<"b", "r", "k">>, p, n) =>
                   result = Returned(IOr(Hex32(54304, 0), Sh(n, 5)))

\* C14: the line 'add xd, xn, xm' assembles without raising to the word
\* _encode_add_sub_reg('add', [xd, xn, xm]) returns, its three
\* comma-separated operands reaching the encoder as a list of length 3.
C14_OperandsSplitOnCommas ==
    (pc = "idle" /\ call.op = "assemble_instruction") =>
        \A rd \in RegSample, rn \in RegSample, rm \in RegSample :
            call.line = AddLine(rd, rn, rm) =>
                /\ Len(Operands(SplitWS(Replace(call.line, ",", " ")))) = 3
                /\ result = Returned(encode_add_sub_reg(<<"a", "d", "d">>, <<rd, rn, rm>>).v)

\* the relocation entries of an instruction address and label
EntriesFor(rels, addr, label) ==
    {k \in 1..Len(rels) : rels[k][1] = addr /\ rels[k][2] = label}

BranchLines(ls) == {i \in 1..Len(ls) : IsBranchLine(ls[i])}

\* the second loop of assemble is over and the resolver has not started
EndOfPass2 == call.op = "assemble" /\ pc = "NextRelocation" /\ local.i = 0

\* C15: at the end of pass 2 the relocation list holds exactly one entry
\* for every emitted branch, whether or not its label is in the label
\* table, and each branch was emitted with a zero offset field.
C15_OneRelocationPerBranch ==
    (EndOfPass2 /\ PlainSource(lines)) =>
        /\ Len(relocations) = Cardinality(BranchLines(lines))
        /\ \A i \in BranchLines(lines) :
              /\ Cardinality(EntriesFor(relocations,
                                        IAdd(call.base_address, I(4 * WordIndex(lines, i))),
                                        BranchTarget(lines[i]))) = 1
              /\ BranchHolds(lines, machine_code, i, 0)

\* the steps of the second loop of assemble
Pass2Steps ==
    {"LoadLineAddress", "StoreLineLabel", "TestLabel", "LoadTarget", "LoadHere",
     "LoadRelocAddress", "AppendRelocation", "AppendWord", "LoadAdvance", "StoreAdvance",
     "ReportError"}

InPass2 == call.op = "assemble" /\ pc \in Pass2Steps

\* C16: pass 2 leaves the label table exactly as pass 1 built it.
C16_Pass2KeepsLabels ==
    [][InPass2 => labels' = labels]_vars

\* the bits of a word that a relocation entry of the given type may change
FieldMask(rel_type) ==
    IF rel_type \in {<<"b">>, <<"b", "l">>} THEN Hex32(1023, 65535)
    ELSE IF rel_type \in {<<"b", "c", "o", "n", "d">>, <<"c", "b">>, <<"c", "b", "z">>, <<"c", "b", "n", "z">>} THEN Hex32(255, 65504)
    ELSE IF rel_type \in {<<"t", "b">>, <<"t", "b", "z">>, <<"t", "b", "n", "z">>} THEN Hex32(7, 65504)
    ELSE IF rel_type \in {<<"a", "d", "r">>, <<"a", "d", "r", "p">>} THEN Hex32(24831, 65504)
    ELSE I(0)

\* the entries of rels that refer to word k (from 1) and whose label is defined
EntriesOfWord(rels, lbls, base_address, k) ==
    {e \in 1..Len(rels) :
        /\ HasLabel(lbls, rels[e][2])
        /\ IFloorDiv(ISub(rels[e][1], base_address), 4) = I(k - 1)}

RECURSIVE MaskOfEntries(_, _)
MaskOfEntries(rels, es) ==
    IF es = {} THEN I(0)
    ELSE LET e == CHOOSE x \in es : TRUE
         IN  IOr(FieldMask(rels[e][3]), MaskOfEntries(rels, es \ {e}))

\* the bits of the 32-bit word w outside the mask
Outside(w, mask) == IAnd(w, Hex32(65535 - mask[1], 65535 - mask[2]))

\* the steps of _resolve_relocations, at the end of assemble or in a direct
\* call
ResolverSteps ==
    {"NextRelocation", "TestRelocationLabel", "Warn", "CodeLength", "LoadWord",
     "LoadRelocationTarget", "StoreWord"}

ResolverRuns == pc \in ResolverSteps

\* C17: every step of relocation resolution keeps the length of the buffer
\* and changes, in a word, only the offset-field bits of the entries that
\* refer to it and whose label is defined; every other bit and every other
\* word stays.
C17_OnlyOffsetFieldsChange ==
    [][ResolverRuns =>
          /\ Len(machine_code') = Len(machine_code)
          /\ \A k \in 1..Len(machine_code) :
                Outside(machine_code'[k],
                        MaskOfEntries(relocations,
                                      EntriesOfWord(relocations, labels,
                                                    call.base_address, k)))
                = Outside(machine_code[k],
                          MaskOfEntries(relocations,
                                        EntriesOfWord(relocations, labels,
                                                      call.base_address, k)))]_vars

\* C17 witness: a direct call has patched a word of an all-ones buffer for
\* one entry and skipped another entry whose label is undefined
C17_Witness ==
    /\ pc = "idle"
    /\ call.op = "_resolve_relocations"
    /\ \E e \in 1..Len(relocations) : ~HasLabel(labels, relocations[e][2])
    /\ \E k \in 1..Len(machine_code) :
          /\ EntriesOfWord(relocations, labels, call.base_address, k) # {}
          /\ machine_code[k] \notin {ZeroWord, OnesWord}
    /\ \E k \in 1..Len(machine_code) : machine_code[k] = OnesWord

\* a step of a _resolve_relocations that runs on the state an earlier run
\* of it left: a direct call after a returned assemble or after a direct
\* call
ResolverRunsAgain ==
    /\ pc \in ResolverSteps
    /\ call.op = "_resolve_relocations"
    /\ call.nth >= 2

\* C18: a second run of _resolve_relocations leaves the buffer exactly as
\* the first run left it.
C18_ResolveIdempotent ==
    [][ResolverRunsAgain => machine_code' = machine_code]_vars

\* C18 witness: the second direct call in a row has returned on a buffer in
\* which the first one patched a word
C18_Witness ==
    /\ pc = "idle"
    /\ call.op = "_resolve_relocations"
    /\ call.nth = 2
    /\ result.kind = "return"
    /\ \E k \in 1..Len(machine_code) :
          /\ EntriesOfWord(relocations, labels, call.base_address, k) # {}
          /\ machine_code[k] \notin {ZeroWord, OnesWord}

\* the orders in which a list of n entries can be processed
Orders(n) == {p \in [1..n -> 1..n] : \A i, j \in 1..n : p[i] = p[j] => i = j}

Permuted(rels, p) == [i \in 1..Len(rels) |-> rels[p[i]]]


\* the label table the first loop of assemble builds from line i on
RECURSIVE FirstPass(_, _, _, _)
FirstPass(ls, i, lbls, addr) ==
    IF i > Len(ls) THEN lbls
    ELSE FirstPass(ls, i + 1, Pass1Line(ls[i], lbls, addr).labels,
                   Pass1Line(ls[i], lbls, addr).address)

\* the second loop of assemble from line i on, r being what
\* assemble_instruction did with line i
RECURSIVE SecondPass(_, _, _, _, _, _)
SecondPassWith(ls, i, rels, addr, mc, r) ==
    IF ~r.out.ok
    THEN [result |-> Raised(r.out.exc), machine_code |-> mc, labels |-> r.labels,
          relocations |-> rels \o r.rel]
    ELSE IF r.out.v # None
    THEN SecondPass(ls, i + 1, r.labels, rels \o r.rel, IAdd(addr, I(4)),
                    Append(mc, r.out.v))
    ELSE SecondPass(ls, i + 1, r.labels, rels \o r.rel, addr, mc)

SecondPass(ls, i, lbls, rels, addr, mc) ==
    IF i > Len(ls)
    THEN [result |-> Pending, machine_code |-> mc, labels |-> lbls, relocations |-> rels]
    ELSE SecondPassWith(ls, i, rels, addr, mc, assemble_instruction(ls[i], lbls, addr))

Resolved(p, r) ==
    [p EXCEPT !.machine_code = r.mc,
              !.result = IF r.ok THEN Returned(MachineCodeRef) ELSE Raised("IndexError")]

\* after the second loop p: the resolver, unless a line raised
FreshEnd(p, base_address) ==
    IF p.result # Pending THEN p
    ELSE Resolved(p, resolve_relocations(p.machine_code, p.labels, p.relocations,
                                         base_address))

\* what assemble(source, base_address) does on a fresh instance: its outcome
\* and the buffer, label table and relocation list it leaves
FreshRun(ls, base_address) ==
    FreshEnd(SecondPass(ls, 1, FirstPass(ls, 1, <<>>, base_address), <<>>,
                        base_address, <<>>),
             base_address)

\* the buffer the second loop of assemble(source, base_address) leaves to
\* the resolver
Pass2Buffer(ls, base_address) ==
    SecondPass(ls, 1, FirstPass(ls, 1, <<>>, base_address), <<>>, base_address,
               <<>>).machine_code

\* C19: for an assemble that has returned, processing the relocation list
\* pass 2 produced in any order on the buffer pass 2 produced yields the
\* buffer that assemble returns.
C19_ResolveOrderIndependent ==
    (AssembleDone /\ result.kind = "return") =>
        \A p \in Orders(Len(relocations)) :
            resolve_relocations(Pass2Buffer(lines, call.base_address), labels,
                                Permuted(relocations, p), call.base_address).mc
            = machine_code

\* C19 witness: assemble has returned with a relocation list of an
\* undefined label and two entries of a defined one, both patched
C19_Witness ==
    /\ AssembleDone
    /\ result.kind = "return"
    /\ \E e \in 1..Len(relocations) : ~HasLabel(labels, relocations[e][2])
    /\ \E k1, k2 \in 1..Len(machine_code) :
          /\ k1 # k2
          /\ \A k \in {k1, k2} :
                /\ EntriesOfWord(relocations, labels, call.base_address, k) # {}
                /\ IAnd(machine_code[k],
                        MaskOfEntries(relocations,
                                      EntriesOfWord(relocations, labels,
                                                    call.base_address, k))) # I(0)

\* C20: whatever assemble calls were made on the instance before, a
\* finished assemble(source, base) has the outcome, machine code, label
\* table and relocation list of the same call on a fresh instance.
C20_NoStateAcrossRuns ==
    AssembleDone =>
        [result |-> result, machine_code |-> machine_code, labels |-> labels,
         relocations |-> relocations]
        = FreshRun(SplitOn(Strip(call.source), "\n"), call.base_address)

\* C20 witness: an assemble has returned a non-empty buffer on an instance
\* on which an earlier assemble raised
C20_Witness ==
    /\ AssembleDone
    /\ result.kind = "return"
    /\ machine_code # <<>>
    /\ \E i \in 1..Len(stderr) : stderr[i].kind = "error"

\* C21: after a successful assemble every element of the buffer is a
\* 32-bit word, 0 <= w < 2^32.
C21_WordsFit32Bits ==
    (AssembleDone /\ result.kind = "return") =>
        \A k \in 1..Len(machine_code) : IsWord32(machine_code[k])

\* the end of the load commands in the file: the header and the commands
\* of 72, 152 and 24 bytes
CommandsEnd == 32 + 72 + 152 + 24

\* the four bytes of the file from a 0-based offset on
FileWord(f, o) == [b \in 1..4 |-> FileByte(f, o + b - 1)]

MachoWritten == MachoOver /\ result.kind = "return"

\* C22: the file generate_macho writes for a buffer of n words is
\* 0x4000 + 4n bytes long, also for n = 0; its bytes from the end of the
\* load commands to 0x4000 are zero and word i is stored little-endian at
\* 0x4000 + 4i.
C22_FileLayout ==
    MachoWritten =>
        /\ FileSize(files) = TextFileOff + 4 * Len(machine_code)
        /\ \A o \in CommandsEnd..(TextFileOff - 1) : FileByte(files, o) = 0
        /\ \A i \in 1..Len(machine_code) :
              FileWord(files, TextFileOff + 4 * (i - 1)) = PackI(machine_code[i]).v

\* the complete image of the instance: header, three load commands, and
\* all code words after the padding
CompleteImage(f, mc) ==
    /\ f.exists
    /\ Len(f.head) = CommandsEnd
    /\ Len(f.code) = 4 * Len(mc)

\* C23: generate_macho either returns having written the complete image or
\* raises with the output file as the call found it.
C23_MachoAllOrNothing ==
    MachoOver =>
        \/ result.kind = "return" /\ CompleteImage(files, machine_code)
        \/ result.kind = "raise" /\ files = call.before

\* the zero register of the width of the register operand rn
ZeroRegister(rn) == IF Head(rn) = "w" THEN <<"w", "z", "r">> ELSE <<"x", "z", "r">>

\* the outcome of a direct encoder call whose method did r
Outcome(r) == IF r.ok THEN Returned(r.v) ELSE Raised(r.exc)

\* C24: _encode_cmp('cmp', [rn, rm]) equals _encode_add_sub_reg('subs',
\* [zero register, rn, rm]), and _encode_cmp('cmp', [rn, '#imm']) equals
\* _encode_add_sub_imm('subs', [zero register, rn, '#imm']) for imm in
\* 0..4095.
C24_CmpIsSubsToZeroRegister ==
    (pc = "idle" /\ call.op = "encoder") =>
        /\ \A rn \in RegSample, rm \in RegSample :
              call = CmpRegCall(rn, rm) =>
                  result = Outcome(encode_add_sub_reg(<<"s", "u", "b", "s">>,
                                                      <<ZeroRegister(rn), rn, rm>>))
        /\ \A rn \in RegSample, n \in In12 :
              call = CmpCall(rn, n) =>
                  result = Outcome(encode_add_sub_imm(<<"s", "u", "b", "s">>,
                                       <<ZeroRegister(rn), rn, ImmText(n)>>))

\* the names that appear as a `name:` prefix of a line without its comment
PrefixLabels(ls) == {SrcLabel(ls[k]) : k \in 1..Len(ls)} \ {<<>>}

\* C25: after assemble the label table holds exactly the names that are a
\* `name:` prefix of a line once its comment is removed.
C25_LabelsFromUncommentedLines ==
    (AssembleDone /\ result.kind = "return") => DOMAIN labels = PrefixLabels(lines)

\* the architectural number and the sf bit of a register of RegSample
ArchNumber(r) ==
    IF r \in {<<"s", "p">>, <<"w", "z", "r">>} THEN 31
    ELSE IF r = <<"x", "0">> THEN 0
    ELSE IF r = <<"x", "1">> THEN 1
    ELSE IF r = <<"x", "3", "0">> THEN 30
    ELSE 5

ArchWide(r) == IF Head(r) = "w" THEN 0 ELSE 1

\* sf << 31 | base | rm << 16 | rn << 5 | rd
TwoSourceWord(base, rd, rn, rm) ==
    IOrAll(<<Sh(ArchWide(rd), 31), base, Sh(ArchNumber(rm), 16), Sh(ArchNumber(rn), 5),
             I(ArchNumber(rd))>>)

\* C26: _encode_mul_div gives udiv the data-processing (2 source) word
\* sf<<31 | 0x1AC00800 | rm<<16 | rn<<5 | rd and sdiv the word
\* sf<<31 | 0x1AC00C00 | rm<<16 | rn<<5 | rd.
C26_DivideLayout ==
    (pc = "idle" /\ call.op = "encoder") =>
        \A rd \in RegSample, rn \in RegSample, rm \in RegSample :
            /\ call = MulDivCall(<<"u", "d", "i", "v">>, rd, rn, rm) =>
                  result = Returned(TwoSourceWord(Hex32(6848, 2048), rd, rn, rm))
            /\ call = MulDivCall(<<"s", "d", "i", "v">>, rd, rn, rm) =>
                  result = Returned(TwoSourceWord(Hex32(6848, 3072), rd, rn, rm))

\* is w the word an instruction recording the entry type leaves: a b/bl or
\* b.cond opcode with a zero offset field
CreatedBy(w, rel_type) ==
    IF rel_type = <<"b">> THEN IAnd(w, Hex32(32767, 65535)) = Hex32(5120, 0)
    ELSE IF rel_type = <<"b", "c", "o", "n", "d">> THEN IAnd(w, Hex32(65535, 65520)) = Hex32(21504, 0)
    ELSE IAnd(w, FieldMask(rel_type)) = I(0)

\* the places at which a line of the second loop can start, the end of the
\* loop included
LineStarts == {"LoadLineAddress", "TestLabel", "AppendWord", "ReportError", "NextRelocation"}

\* the second loop of assemble stands between two lines: before its first
\* line, after a line, or at its end
LineBoundary ==
    /\ call.op = "assemble"
    /\ pc \in LineStarts
    /\ lineno >= 1
    /\ At(pc, lineno, local, result) = Pass2From(lineno)

\* C28: at every line boundary of pass 2 the address is base + 4 * (words
\* emitted); every relocation entry has the offset base + 4*i of a word i
\* of the buffer, the instruction that created it; no two entries share an
\* offset.
C28_Pass2AddressInvariant ==
    LineBoundary =>
        /\ address = IAdd(call.base_address, I(4 * Len(machine_code)))
        /\ \A e \in 1..Len(relocations) :
              \E i \in 1..Len(machine_code) :
                  /\ relocations[e][1] = IAdd(call.base_address, I(4 * (i - 1)))
                  /\ CreatedBy(machine_code[i], relocations[e][3])
        /\ \A e1, e2 \in 1..Len(relocations) :
              relocations[e1][1] = relocations[e2][1] => e1 = e2

\* C28 witness: pass 2 has ended with two entries, the first of them for a
\* word that is not the first of the buffer
C28_Witness ==
    /\ EndOfPass2
    /\ Len(relocations) >= 2
    /\ relocations[1][1] # call.base_address
    /\ relocations[2][3] = <<"b", "c", "o", "n", "d">>

\* the vmaddr field of the __TEXT segment command: bytes 128..135 of the file
TextVmaddrBytes(f) == SubSeq(f.head, 129, 136)

\* C29: generate_macho after a successful assemble(source, base) records
\* base as the address of the code segment and the base-relative offset of
\* the entry label as the entry offset, for every base.
C29_ImageFollowsBase ==
    (MachoOver /\ AfterReturnedAssemble /\ call.entry_point \in DOMAIN labels) =>
        /\ result = Returned(None)
        /\ TextVmaddrBytes(files) = PackQ(call.previous.base_address).v
        /\ EntryOffBytes(files) =
               PackQ(ISub(labels[call.entry_point], call.previous.base_address)).v

\* a step of an assemble call
AssembleRuns == call'.op = "assemble" /\ (pc # "idle" \/ pc' # "idle")

\* C30: the sequence an assemble call returned keeps the contents it was
\* returned with through every later assemble call on the instance.
C30_ReturnedSequenceStable ==
    [][(returned.valid /\ AssembleRuns) => machine_code' = returned.words]_vars

\* the last step of the running thread's assemble call (a preemption
\* changes the suspended frame, a step of the call does not)
RunEnds == call.op = "assemble" /\ pc # "idle" /\ pc' = "idle" /\ suspended' = suspended

\* the outcome and the instance state a run ends with
RunState(res, mc, lbls, rels) ==
    [result |-> res, machine_code |-> mc, labels |-> lbls, relocations |-> rels]

\* the run that ends and the run of the other thread have overlapped: the
\* other thread is inside assemble now, or the two were inside it at the
\* same time before
RunsOverlapped == suspended.pc # "idle" \/ suspended.overlap

\* C27: a run on a shared instance ends with an outcome, buffer, label
\* table or relocation list different from those of the same run alone
\* only if it has overlapped the run of the other thread: a run made
\* before the other one starts or after the other one has ended (on the
\* instance as that run left it) does not differ, interleaved runs do.
C27_InterferenceNeedsOverlap ==
    [][RunEnds =>
          \/ RunState(result', machine_code', labels', relocations')
             = FreshRun(lines, call.base_address)
          \/ RunsOverlapped]_vars

\* C27 witness: a run has returned while the other thread is inside its
\* own run, and the buffer it returned is not the buffer it returns alone
C27_Witness ==
    /\ AssembleDone
    /\ result.kind = "return"
    /\ suspended # NoThread
    /\ suspended.pc # "idle"
    /\ returned.valid
    /\ returned.words # FreshRun(lines, call.base_address).machine_code
=============================================================================
